---------------------------- MODULE Spec2Model ----------------------------
(***************************************************************************)
(* Verification model of Image_Translator_LMM's algorithmic cores:         *)
(*   - the OCR line-merging engine (utils/utils.py:                        *)
(*     is_sentence_end, check_horizontal_proximity,                        *)
(*     process_ocr_results_merge_lines), and                               *)
(*   - the text wrapping engine (utils/font_utils.py:                      *)
(*     get_font_line_height, wrap_text_pil),                               *)
(*   - the auto-fit of a block's bbox to its wrapped text                  *)
(*     (src/image_processor.py: _adjust_block_bbox_for_text_fit).          *)
(*                                                                         *)
(* Texts are sequences of one-character strings.  Pixel coordinates of OCR *)
(* boxes are integers after parsing; raw coordinates are tagged values so  *)
(* that int(round(float(x))) is modelled by what it does.  Text widths are *)
(* kept in sub-pixel units (SubPx units per pixel) because Pillow's        *)
(* textlength returns fractional pixels.                                   *)
(***************************************************************************)
EXTENDS Integers, Sequences, FiniteSets, TLC

VARIABLES
    \* --- process_ocr_results_merge_lines -------------------------------
    ocr_output_raw_segments,  \* the argument: list of raw OCR items
    lang_hint,                \* the argument lang_hint
    raw_blocks,               \* parsed blocks (utils.py:216-287), unsorted
    span_ids,                 \* per returned span, the fragment ids merged into it
    merged_results,           \* the value returned
    merge_pc,                 \* "call" | "parsed" | "returned" | "recognized"
    ocr_results,              \* <<>>, then what the provider's recognize_text returned
    \* --- wrap_text_pil --------------------------------------------------
    PILLOW_AVAILABLE,         \* the module global of font_utils.py:5-12
    wrap_args,                \* the arguments: text, font, max_dim, orientation,
                              \*   char_spacing_px, line_or_col_spacing_px, draw
    wrap_loop,                \* the locals of the wrapping loop
    wrap_result,              \* the tuple returned
    wrap_pc,                  \* "call" | "loop" | "returned"
    \* --- _adjust_block_bbox_for_text_fit --------------------------------
    fit_block,                \* the block: translated_text, bbox, orientation
    fit_font,                 \* the argument pil_font_for_calc
    fit_config,               \* the [UI] options the method reads
    fit_history,              \* the bbox at the start and after every call so far
    \* --- InteractiveLabel and MainWindow (ui/main_window.py) ------------
    background_pixmap,        \* TRUE when a background image is set, FALSE for None
    translation_worker,       \* TRUE while a TranslationWorker is running
    processed_blocks,         \* the blocks shown: id, bbox, angle of each
    selected_block,           \* index in processed_blocks of the selected block, 0 for None
    dragging_block,           \* the three gesture flags
    resizing_block,
    rotating_block,
    resize_corner,            \* 0..3: the corner handle pressed
    initial_mouse_pos_on_drag,            \* "pos" once a gesture began, "None" otherwise
    initial_block_bbox_on_drag,           \* <<>> for None
    resize_anchor_opposite_corner_orig,   \* <<>> for None
    initial_angle_on_rotate,
    time_ns,                  \* the last value time.time_ns() returned
    edit_counts,              \* translations finished and mouse presses so far
    ids_assigned,             \* history: every id given to a block so far
    ids_reused,               \* history: the ids given to a second block
    \* --- _render_single_block_pil_for_preview (utils/utils.py) ----------
    render_block,             \* the block: translated_text, bbox, orientation
    render_font,              \* what get_pil_font returns for the block
    render_style,             \* the style arguments of the call
    render_result,            \* <<>> before the call, then its outcome
    \* --- get_font_line_height (utils/font_utils.py) ---------------------
    line_height_args,         \* the arguments: font, default_size, vertical_spacing_px
    line_height_result,       \* <<>> before the call, then <<the value returned>>
    \* --- is_sentence_end (utils/utils.py) --------------------------------
    sentence_text,            \* the argument text
    sentence_result,          \* <<>> before the call, then <<the value returned>>
    \* --- TranslationWorker.run and process_image ------------------
    worker_pc,                \* where the worker thread is in run / process_image
    cancellation_event,       \* TranslationWorker.cancellation_event: TRUE once set
    worker_env,               \* what the environment answers: files, libraries, services
    last_error,               \* ImageProcessor.last_error ("None" for None)
    worker_locals,            \* the locals of process_image
    providers_attempted,      \* history: the OCR services called so far, in order
    result_tuple,             \* <<>>, then how process_image ended
    finished_signal,          \* the emissions of finished_signal so far, in order
    \* --- translate_batch (services/translation_providers.py) ------
    translate_pc,             \* "call" | "item" | "request" | "after" | "returned"
    translate_event,          \* the argument cancellation_event: TRUE once set
    translate_args,           \* the provider's state and the argument texts
    translate_loop,           \* the locals of the loop: i, results
    translate_return          \* <<>>, then the value returned

mergeVars ==
    <<ocr_output_raw_segments, lang_hint, raw_blocks, span_ids, merged_results, merge_pc,
      ocr_results>>

wrapVars == <<PILLOW_AVAILABLE, wrap_args, wrap_loop, wrap_result, wrap_pc>>

fitVars == <<fit_block, fit_font, fit_config, fit_history>>

gestureVars ==
    <<dragging_block, resizing_block, rotating_block, resize_corner, initial_mouse_pos_on_drag,
      initial_block_bbox_on_drag, resize_anchor_opposite_corner_orig, initial_angle_on_rotate>>

idVars == <<time_ns, ids_assigned, ids_reused>>

editVars ==
    <<background_pixmap, translation_worker, processed_blocks, selected_block, gestureVars,
      idVars, edit_counts>>

renderVars == <<render_block, render_font, render_style, render_result>>

lineHeightVars == <<line_height_args, line_height_result>>

sentenceVars == <<sentence_text, sentence_result>>

workerVars ==
    <<worker_pc, cancellation_event, worker_env, last_error, worker_locals,
      providers_attempted, result_tuple, finished_signal>>

translateVars == <<translate_pc, translate_event, translate_args, translate_loop, translate_return>>

vars ==
    <<mergeVars, wrapVars, fitVars, editVars, renderVars, lineHeightVars, sentenceVars,
      workerVars, translateVars>>

\* what each part of the model leaves alone
outsideMerge ==
    <<wrapVars, fitVars, editVars, renderVars, lineHeightVars, sentenceVars,
      workerVars, translateVars>>
outsideWrap ==
    <<mergeVars, fitVars, editVars, renderVars, lineHeightVars, sentenceVars,
      workerVars, translateVars>>
outsideFit ==
    <<mergeVars, wrapVars, editVars, renderVars, lineHeightVars, sentenceVars,
      workerVars, translateVars>>
outsideEdit ==
    <<mergeVars, wrapVars, fitVars, renderVars, lineHeightVars, sentenceVars,
      workerVars, translateVars>>
outsideRender ==
    <<mergeVars, wrapVars, fitVars, editVars, lineHeightVars, sentenceVars,
      workerVars, translateVars>>
outsideLineHeight ==
    <<mergeVars, wrapVars, fitVars, editVars, renderVars, sentenceVars,
      workerVars, translateVars>>
outsideSentence ==
    <<mergeVars, wrapVars, fitVars, editVars, renderVars, lineHeightVars,
      workerVars, translateVars>>
outsideWorker ==
    <<mergeVars, wrapVars, fitVars, editVars, renderVars, lineHeightVars,
      sentenceVars, translateVars>>
outsideTranslate ==
    <<mergeVars, wrapVars, fitVars, editVars, renderVars, lineHeightVars,
      sentenceVars, workerVars>>

-----------------------------------------------------------------------------
(* Generic helpers                                                         *)

Min2(a, b) == IF a <= b THEN a ELSE b
Max2(a, b) == IF a >= b THEN a ELSE b
Abs(a) == IF a < 0 THEN -a ELSE a

RECURSIVE Concat(_)
\* ''.join(list of texts)
Concat(ss) == IF ss = <<>> THEN <<>> ELSE Head(ss) \o Concat(Tail(ss))

-----------------------------------------------------------------------------
(* str.strip / str.isspace / is_sentence_end   (utils/utils.py:124-160)    *)

\* characters for which str.isspace() is true: ASCII space, ideographic space,
\* newline
WhiteSpace == {" ", "IDEOSP", "\n"}

RECURSIVE LStrip(_)
LStrip(t) == IF t # <<>> /\ Head(t) \in WhiteSpace THEN LStrip(Tail(t)) ELSE t

RECURSIVE RStrip(_)
RStrip(t) == IF t # <<>> /\ t[Len(t)] \in WhiteSpace
             THEN RStrip(SubSeq(t, 1, Len(t) - 1)) ELSE t

\* str.strip()
Strip(t) == RStrip(LStrip(t))

\* Characters outside ASCII are named tokens, one token per character:
\*   IDEO_STOP U+3002, IDEO_COMMA U+3001, FW_EXCL U+FF01, FW_QUES U+FF1F,
\*   R_CORNER U+300D, R_WCORNER U+300F, FW_RPAREN U+FF09, R_LENT U+3011,
\*   IDEOSP U+3000 (ideographic space), K_HAI K_SHIN K_KAI K_SHI (kanji).
end_chars == {"IDEO_STOP", "IDEO_COMMA", "FW_EXCL", "FW_QUES", ".", "!", "?"}
closing_brackets == {"R_CORNER", "R_WCORNER", "FW_RPAREN", ")", "R_LENT", "]", "\"", "'"}

RECURSIVE LastNonSpace(_)
\* for c in reversed(text): if not c.isspace(): return c ; '' when none
LastNonSpace(t) ==
    IF t = <<>> THEN ""
    ELSE IF t[Len(t)] \notin WhiteSpace THEN t[Len(t)]
    ELSE LastNonSpace(SubSeq(t, 1, Len(t) - 1))

RECURSIVE StripBracketTail(_, _)
\* while temp.endswith(last_char) or temp.endswith(' '): drop one character
StripBracketTail(t, last_char) ==
    IF t # <<>> /\ (t[Len(t)] = last_char \/ t[Len(t)] = " ")
    THEN StripBracketTail(SubSeq(t, 1, Len(t) - 1), last_char)
    ELSE t

is_sentence_end(text_in) ==
    LET text == Strip(text_in)
        last_char == LastNonSpace(text)
    IN  IF text = <<>> THEN FALSE
        ELSE IF last_char = "" THEN FALSE
        ELSE IF last_char \in end_chars THEN TRUE
        ELSE IF last_char \in closing_brackets /\ Len(text) > 1
             THEN LET temp_text == StripBracketTail(text, last_char)
                  IN  temp_text # <<>> /\ LastNonSpace(temp_text) \in end_chars
        ELSE FALSE

-----------------------------------------------------------------------------
(* check_horizontal_proximity   (utils/utils.py:163-209)                   *)
(* Boxes are <<x0, y0, x1, y1>> of integers.  The float comparisons are    *)
(* done here on integers, multiplied out:                                  *)
(*   center = (y0+y1)/2, avg_h = (h1+h2)/2                                 *)
(*   |c1-c2| > avg_h*0.6   <=>  5*|(y0+y1)_1 - (y0+y1)_2| > 3*(h1+h2)      *)
(*   gap > avg_h*1.5       <=>  4*gap > 3*(h1+h2)                          *)
(*   d   > avg_h*0.5       <=>  4*d   > (h1+h2)                            *)
(* (for integer boxes the double-precision products are exact whenever the *)
(* two sides are equal, so the multiplied-out form decides identically).   *)

vertical_too_far(box1, box2) ==
    LET h1 == box1[4] - box1[2]
        h2 == box2[4] - box2[2]
    IN  5 * Abs((box1[2] + box1[4]) - (box2[2] + box2[4])) > 3 * (h1 + h2)

\* mutant: the vertical centre-line test of lines 187-189 left out
check_horizontal_proximity_no_vertical_test(box1_data, box2_data) ==
    LET box1 == box1_data.bbox
        box2 == box2_data.bbox
        h1 == box1[4] - box1[2]
        h2 == box2[4] - box2[2]
    IN  IF box1[1] > box2[1] /\ box1[3] > box2[3] /\ box1[1] > box2[3] THEN FALSE
        ELSE IF h1 <= 0 \/ h2 <= 0 THEN FALSE
        ELSE IF box1[3] <= box2[1]
             THEN ~ (4 * (box2[1] - box1[3]) > 3 * (h1 + h2))
        ELSE IF box2[1] < box1[1]
             THEN ~ (4 * (box1[1] - box2[1]) > (h1 + h2))
        ELSE TRUE

check_horizontal_proximity(box1_data, box2_data) ==
    LET box1 == box1_data.bbox
        box2 == box2_data.bbox
        h1 == box1[4] - box1[2]
        h2 == box2[4] - box2[2]
    IN  IF box1[1] > box2[1] /\ box1[3] > box2[3] /\ box1[1] > box2[3] THEN FALSE
        ELSE IF h1 <= 0 \/ h2 <= 0 THEN FALSE
        ELSE IF h1 + h2 <= 0 THEN FALSE
        ELSE IF vertical_too_far(box1, box2) THEN FALSE
        ELSE IF box1[3] <= box2[1]
             THEN ~ (4 * (box2[1] - box1[3]) > 3 * (h1 + h2))
        ELSE IF box2[1] < box1[1]
             THEN ~ (4 * (box1[1] - box2[1]) > (h1 + h2))
        ELSE TRUE

-----------------------------------------------------------------------------
(* process_ocr_results_merge_lines, parsing phase (utils/utils.py:213-294) *)
(*                                                                         *)
(* A raw coordinate is [k, v2]:                                            *)
(*   k = "num"    a number or numeric string; v2 is twice its value, so    *)
(*                that halves (x.5) exist and round() has work to do       *)
(*   k = "badstr" a non-numeric string      float() raises ValueError      *)
(*   k = "none"   None / a list             float() raises TypeError       *)
(*   k = "nan"    float('nan')              round() raises ValueError      *)
(*   k = "inf"    float('inf') / 1e999      round() raises OverflowError   *)
(* A raw item is [shape, text_info_raw, box_info_raw]:                     *)
(*   shape "pair" (list/tuple of length 2) or "other"                      *)
(*   text_info_raw = [kind, s]: kind "tuple"/"list" (first element the     *)
(*       string s), "str" (the string s itself) or "other"                 *)
(*   box_info_raw = [kind, pok, c]: kind "list4" (4 points; pok[p] says    *)
(*       whether point p is a list/tuple of length 2), "list8" (8 flat     *)
(*       coordinates) or "other"; c the 8 raw coordinates x1,y1,..,x4,y4   *)

\* the exception int(round(float(c))) raises, "" when it raises none
coord_exception(c) ==
    CASE c.k = "num"    -> ""
      [] c.k = "badstr" -> "ValueError"
      [] c.k = "none"   -> "TypeError"
      [] c.k = "nan"    -> "ValueError"
      [] c.k = "inf"    -> "OverflowError"

\* int(round(float(c))) for a numeric c: Python 3 rounds halves to even
int_round_float(c) ==
    LET n == c.v2 \div 2
    IN  IF c.v2 % 2 = 0 THEN n
        ELSE IF n % 2 = 0 THEN n ELSE n + 1

RECURSIVE scan_coords(_, _)
\* the two conversion loops (lines 245-252 and 260-261), coordinate by
\* coordinate in evaluation order: "ok", "skip" (point of the wrong shape,
\* or ValueError/TypeError caught at lines 249/266) or "abort" (any other
\* exception, which only the outer handler of line 289 catches)
scan_coords(box, idx) ==
    IF idx > 8 THEN "ok"
    ELSE IF box.kind = "list4" /\ idx % 2 = 1 /\ ~ box.pok[(idx + 1) \div 2] THEN "skip"
    ELSE IF coord_exception(box.c[idx]) \in {"ValueError", "TypeError"} THEN "skip"
    ELSE IF coord_exception(box.c[idx]) # "" THEN "abort"
    ELSE scan_coords(box, idx + 1)

\* vertices_parsed of a box whose scan is "ok"
vertices_of(box) ==
    [p \in 1..4 |-> <<int_round_float(box.c[2 * p - 1]), int_round_float(box.c[2 * p])>>]

SeqMin(f) == CHOOSE m \in {f[k] : k \in DOMAIN f} : \A k \in DOMAIN f : m <= f[k]
SeqMax(f) == CHOOSE m \in {f[k] : k \in DOMAIN f} : \A k \in DOMAIN f : m >= f[k]

\* bbox_rect (line 280)
bbox_rect_of(v) ==
    <<SeqMin([p \in 1..4 |-> v[p][1]]), SeqMin([p \in 1..4 |-> v[p][2]]),
      SeqMax([p \in 1..4 |-> v[p][1]]), SeqMax([p \in 1..4 |-> v[p][2]])>>

\* one iteration of the loop of line 218 on item number i (0-based):
\* [status |-> "block" | "skip" | "abort", block |-> the block appended]
NoBlock == [id |-> -1, text |-> <<>>, bbox |-> <<0, 0, 0, 0>>]

parse_item(i, item_data) ==
    LET text_info_raw == item_data.text_info_raw
        box_info_raw == item_data.box_info_raw
        text_content_str == Strip(text_info_raw.s)
        scan == scan_coords(box_info_raw, 1)
        bbox_rect == bbox_rect_of(vertices_of(box_info_raw))
    IN  IF item_data.shape # "pair" THEN [status |-> "skip", block |-> NoBlock]
        ELSE IF text_info_raw.kind \notin {"tuple", "list", "str"}
             THEN [status |-> "skip", block |-> NoBlock]
        ELSE IF text_content_str = <<>> THEN [status |-> "skip", block |-> NoBlock]
        ELSE IF box_info_raw.kind \notin {"list4", "list8"}
             THEN [status |-> "skip", block |-> NoBlock]
        ELSE IF scan # "ok" THEN [status |-> scan, block |-> NoBlock]
        ELSE IF ~ (bbox_rect[3] > bbox_rect[1] /\ bbox_rect[4] > bbox_rect[2])
             THEN [status |-> "skip", block |-> NoBlock]
        ELSE [status |-> "block",
              block |-> [id |-> i, text |-> text_content_str, bbox |-> bbox_rect]]

RECURSIVE parse_items(_, _, _)
\* the loop of lines 218-287 inside the try of line 217:
\* [aborted |-> the except of line 289 ran, blocks |-> raw_blocks]
parse_items(items, i, acc) ==
    IF i >= Len(items) THEN [aborted |-> FALSE, blocks |-> acc]
    ELSE LET r == parse_item(i, items[i + 1])
         IN  IF r.status = "abort" THEN [aborted |-> TRUE, blocks |-> <<>>]
             ELSE IF r.status = "skip" THEN parse_items(items, i + 1, acc)
             ELSE parse_items(items, i + 1, Append(acc, r.block))

-----------------------------------------------------------------------------
(* process_ocr_results_merge_lines, sort and merge (utils/utils.py:297-369)*)

\* the sort key of line 297: (bbox[1], bbox[0]) = (y_min, x_min)
key_less(a, b) ==
    \/ a.bbox[2] < b.bbox[2]
    \/ a.bbox[2] = b.bbox[2] /\ a.bbox[1] < b.bbox[1]

RECURSIVE insert_sorted(_, _)
\* insert b behind every element whose key is <= b's (list.sort is stable)
insert_sorted(sorted, b) ==
    IF sorted = <<>> THEN <<b>>
    ELSE IF key_less(b, Head(sorted)) THEN <<b>> \o sorted
    ELSE <<Head(sorted)>> \o insert_sorted(Tail(sorted), b)

RECURSIVE sort_blocks(_)
\* raw_blocks.sort(key=...) (line 297)
sort_blocks(blocks) ==
    IF blocks = <<>> THEN <<>>
    ELSE insert_sorted(sort_blocks(SubSeq(blocks, 1, Len(blocks) - 1)), blocks[Len(blocks)])

cjk_lang_hints == {"ja", "zh", "ko", "jpn", "chi_sim", "kor", "chinese_sim"}

\* joiner (lines 332-339)
joiner_of(lang, current_text_line, next_text) ==
    IF /\ lang \notin cjk_lang_hints
       /\ current_text_line # <<>> /\ next_text # <<>>
       /\ current_text_line[Len(current_text_line)] \notin {"-", "=", "#"}
       /\ next_text[1] \notin {".", ",", "!", "?", ":", ";"}
    THEN <<" ">> ELSE <<>>

\* mutant: the sentence-end test of line 326 left out
should_merge_ignoring_sentence_end(cur, cand) ==
    check_horizontal_proximity(cur.last, cand)

\* mutant: the candidate is tested against the bbox of the whole line built
\* so far instead of the last fragment merged (line 328)
should_merge_against_line_bbox(cur, cand) ==
    /\ ~ is_sentence_end(cur.text)
    /\ check_horizontal_proximity([bbox |-> cur.bbox], cand)

\* should_merge_flag (lines 324-329)
should_merge(cur, cand) ==
    /\ ~ is_sentence_end(cur.text)
    /\ check_horizontal_proximity(cur.last, cand)

\* mutant: the bbox of the line is not extended by the candidate's
merge_into_without_union(cur, cand, lang) ==
    [text |-> cur.text \o joiner_of(lang, cur.text, cand.text) \o cand.text,
     bbox |-> cur.bbox,
     last |-> cand,
     ids  |-> Append(cur.ids, cand.id)]

\* lines 341-353: the candidate is merged into the current line
merge_into(cur, cand, lang) ==
    [text |-> cur.text \o joiner_of(lang, cur.text, cand.text) \o cand.text,
     bbox |-> <<Min2(cur.bbox[1], cand.bbox[1]), Min2(cur.bbox[2], cand.bbox[2]),
                Max2(cur.bbox[3], cand.bbox[3]), Max2(cur.bbox[4], cand.bbox[4])>>,
     last |-> cand,
     ids  |-> Append(cur.ids, cand.id)]

RECURSIVE merge_span_scanning_past_failure(_, _, _, _, _)
\* mutant: the inner loop without the break of line 357
merge_span_scanning_past_failure(blocks, j, cur, processed, lang) ==
    IF j > Len(blocks) THEN [cur |-> cur, processed |-> processed]
    ELSE IF blocks[j].id \in processed
         THEN merge_span_scanning_past_failure(blocks, j + 1, cur, processed, lang)
    ELSE IF should_merge(cur, blocks[j])
         THEN merge_span_scanning_past_failure(blocks, j + 1, merge_into(cur, blocks[j], lang),
                                               processed \cup {blocks[j].id}, lang)
    ELSE merge_span_scanning_past_failure(blocks, j + 1, cur, processed, lang)

RECURSIVE merge_span(_, _, _, _, _)
\* the inner loop of lines 319-357 from index j (1-based) on:
\* [cur |-> the line built, processed |-> processed_block_ids]
merge_span(blocks, j, cur, processed, lang) ==
    IF j > Len(blocks) THEN [cur |-> cur, processed |-> processed]
    ELSE IF blocks[j].id \in processed THEN merge_span(blocks, j + 1, cur, processed, lang)
    ELSE IF should_merge(cur, blocks[j])
         THEN merge_span(blocks, j + 1, merge_into(cur, blocks[j], lang),
                         processed \cup {blocks[j].id}, lang)
    ELSE [cur |-> cur, processed |-> processed]

RECURSIVE merge_lines(_, _, _, _, _)
\* the outer loop of lines 302-367 from index i (1-based) on; a result is
\* [text, bbox, ids]: the tuple appended at line 367 and, as bookkeeping,
\* the ids line 316/353 added to processed_block_ids for it, in merge order
merge_lines(blocks, i, processed, results, lang) ==
    IF i > Len(blocks) THEN results
    ELSE IF blocks[i].id \in processed THEN merge_lines(blocks, i + 1, processed, results, lang)
    ELSE LET start == [text |-> blocks[i].text, bbox |-> blocks[i].bbox,
                       last |-> blocks[i], ids |-> <<blocks[i].id>>]
             r == merge_span(blocks, i + 1, start, processed \cup {blocks[i].id}, lang)
         IN  merge_lines(blocks, i + 1, r.processed,
                         Append(results, [text |-> r.cur.text, bbox |-> r.cur.bbox,
                                          ids |-> r.cur.ids]), lang)

\* lines 297-369 on the parsed blocks
merge_raw_blocks(blocks, lang) == merge_lines(sort_blocks(blocks), 1, {}, <<>>, lang)

\* the tuples (text, bbox) returned
result_tuples(spans) == [k \in 1..Len(spans) |-> <<spans[k].text, spans[k].bbox>>]

\* the whole function, as a value
process_ocr_results_merge_lines(items, lang) ==
    IF items = <<>> THEN <<>>
    ELSE LET p == parse_items(items, 0, <<>>)
         IN  IF p.aborted \/ p.blocks = <<>> THEN <<>>
             ELSE result_tuples(merge_raw_blocks(p.blocks, lang))

-----------------------------------------------------------------------------
(* The OCR providers' use of the merged spans (services/ocr_providers.py)  *)

\* ocr_providers.py:119-128 and 225-230, the body of the loop for one span
\* (merged_text, first_vertices).  The provider reads first_vertices as four
\* points and takes v[0] and v[1] of each; what the merge returns there is
\* current_line_bbox, the list [x_min, y_min, x_max, y_max] (utils.py:367),
\* whose elements are numbers: the subscript raises TypeError.
span_to_ocr_result(span) ==
    LET merged_text == span[1]
        first_vertices == span[2]
    IN  IF first_vertices # <<>> /\ Len(first_vertices) = 4
        THEN [raised |-> "TypeError", appended |-> <<>>]
        ELSE [raised |-> "None", appended |-> <<>>]

\* the loop over the spans: the OCRResults appended until a span raises
RECURSIVE spans_to_ocr_results(_, _, _)
spans_to_ocr_results(merged, k, results) ==
    IF k > Len(merged) THEN [raised |-> "None", results |-> results]
    ELSE LET r == span_to_ocr_result(merged[k])
         IN  IF r.raised # "None" THEN [raised |-> r.raised, results |-> results]
             ELSE spans_to_ocr_results(merged, k + 1, results \o r.appended)

\* recognize_text from the merge onwards: the list of OCRResults, or None
\* with last_error set by the handler at ocr_providers.py:131-135 / 233-237
recognize_text(merged) ==
    LET r == spans_to_ocr_results(merged, 1, <<>>)
    IN  IF r.raised # "None"
        THEN [returned |-> "None", results |-> <<>>, last_error |-> r.raised]
        ELSE [returned |-> "list", results |-> r.results, last_error |-> "None"]

-----------------------------------------------------------------------------
(* Inputs of the merge engine                                              *)

MaxFrags == 3    \* longest list of raw items drawn from FragCatalogue
MaxX == 6        \* grid of the second fragment of a two-fragment input
MaxY == 6

Num(n) == [k |-> "num", v2 |-> 2 * n]
Half(n) == [k |-> "num", v2 |-> 2 * n + 1]      \* the number n + 0.5
AllPointsOk == <<TRUE, TRUE, TRUE, TRUE>>

\* the polygon of rectangle b = <<x0, y0, x1, y1>>, clockwise from top-left
Corners(b) == <<Num(b[1]), Num(b[2]), Num(b[3]), Num(b[2]),
                Num(b[3]), Num(b[4]), Num(b[1]), Num(b[4])>>
Box4(b) == [kind |-> "list4", pok |-> AllPointsOk, c |-> Corners(b)]
Box8(b) == [kind |-> "list8", pok |-> AllPointsOk, c |-> Corners(b)]
With(box, idx, coord) == [box EXCEPT !.c[idx] = coord]

Item(kind, s, box) ==
    [shape |-> "pair", text_info_raw |-> [kind |-> kind, s |-> s], box_info_raw |-> box]

\* well-formed fragments
FragA == Item("tuple", <<"K_HAI">>, Box4(<<0, 0, 2, 2>>))
FragB == Item("list", <<"K_SHIN", "IDEO_STOP">>, Box4(<<3, 0, 5, 2>>))
FragC == Item("str", <<"a", "-">>, Box8(<<2, 0, 4, 6>>))
FragD == Item("tuple", <<".", "b">>, Box4(<<4, 4, 6, 6>>))
\* blanks around the text, and halves in the polygon: x 0.5 -> 0, 2.5 -> 2
FragE == Item("tuple", <<" ", "K_KAI", "IDEOSP">>,
              [kind |-> "list8", pok |-> AllPointsOk,
               c |-> <<Half(0), Num(1), Half(2), Num(1), Half(2), Num(3), Half(0), Num(3)>>])
ValidFrags == {FragA, FragB, FragC, FragD, FragE}

\* malformed fragments, one per way the parsing phase rejects an item
BadShape == [FragA EXCEPT !.shape = "other"]
BadTextType == Item("other", <<"x">>, Box4(<<0, 0, 2, 2>>))
BlankText == Item("tuple", <<" ", "IDEOSP">>, Box4(<<0, 0, 2, 2>>))
BadBoxType == Item("tuple", <<"x">>, [Box4(<<0, 0, 2, 2>>) EXCEPT !.kind = "other"])
BadPoint == Item("tuple", <<"x">>, [Box4(<<0, 0, 2, 2>>) EXCEPT !.pok[2] = FALSE])
BadStrCoord == Item("tuple", <<"x">>, With(Box8(<<0, 0, 2, 2>>), 3, [k |-> "badstr", v2 |-> 0]))
NoneCoord == Item("tuple", <<"x">>, With(Box4(<<0, 0, 2, 2>>), 4, [k |-> "none", v2 |-> 0]))
NanCoord == Item("tuple", <<"x">>, With(Box4(<<0, 0, 2, 2>>), 1, [k |-> "nan", v2 |-> 0]))
InfCoord == Item("tuple", <<"x">>, With(Box4(<<0, 0, 2, 2>>), 5, [k |-> "inf", v2 |-> 0]))
ZeroArea == Item("tuple", <<"x">>, Box4(<<1, 1, 1, 3>>))
MalformedFrags == {BadShape, BadTextType, BlankText, BadBoxType, BadPoint,
                   BadStrCoord, InfCoord, ZeroArea}

FragCatalogue == ValidFrags \cup MalformedFrags

\* every list of at most MaxFrags catalogue items
CatalogueLists == UNION {[1..n -> FragCatalogue] : n \in 0..MaxFrags}

\* two-fragment inputs: a catalogue fragment and a fragment anywhere on the grid
GridBoxes ==
    {b \in (0..MaxX) \X (0..MaxY) \X (0..MaxX) \X (0..MaxY) : b[1] < b[3] /\ b[2] < b[4]}
GridFrags == {Item("tuple", <<"K_SHIN">>, Box4(b)) : b \in GridBoxes}
PairInputs == {<<a, g>> : a \in {FragA, FragB, FragC}, g \in GridFrags}
                \cup {<<g, a>> : a \in {FragA, FragB, FragC}, g \in GridFrags}
                \cup {<<m, a>> : m \in {NoneCoord, NanCoord}, a \in ValidFrags}
                \cup {<<a, m>> : m \in {NoneCoord, NanCoord}, a \in ValidFrags}

\* the worked example of the specification
ExampleHaishin == Item("tuple", <<"K_HAI", "K_SHIN">>, Box4(<<10, 10, 40, 30>>))
ExampleKaishi == Item("tuple", <<"K_KAI", "K_SHI">>, Box4(<<42, 11, 70, 29>>))

MaxChainGap == 5     \* widest horizontal gap between neighbours of a three-fragment chain
MaxChainStep == 4    \* largest vertical step between neighbours of a chain

\* three fragments 1 wide and 5 high, each dx to the right of and dy below
\* its predecessor, none ending a sentence, in reading order and reversed
ChainOf(dx, dy) ==
    <<Item("tuple", <<"K_HAI">>, Box4(<<0, 0, 1, 5>>)),
      Item("tuple", <<"K_SHIN">>, Box4(<<1 + dx, dy, 2 + dx, dy + 5>>)),
      Item("tuple", <<"K_KAI">>, Box4(<<2 + 2 * dx, 2 * dy, 3 + 2 * dx, 2 * dy + 5>>))>>
ChainInputs ==
    {ChainOf(dx, dy) : dx \in 0..MaxChainGap, dy \in 0..MaxChainStep}
      \cup {<<ChainOf(dx, dy)[3], ChainOf(dx, dy)[2], ChainOf(dx, dy)[1]>> :
                dx \in 0..MaxChainGap, dy \in 0..MaxChainStep}

\* a fragment, a second one on the same top line 3 + 2g to its right (beyond
\* the gap limit from g = 3 on) and a third just right of the first and dy
\* lower, which therefore sorts last
InterruptedOf(g, dy) ==
    <<Item("tuple", <<"K_HAI">>, Box4(<<0, 0, 1, 5>>)),
      Item("tuple", <<"K_SHIN">>, Box4(<<4 + 2 * g, 0, 5 + 2 * g, 5>>)),
      Item("tuple", <<"K_KAI">>, Box4(<<2, dy, 3, dy + 5>>))>>
InterruptedInputs == {InterruptedOf(g, dy) : g \in 0..MaxChainGap, dy \in 1..MaxChainStep}

MergeInputs ==
    CatalogueLists \cup PairInputs \cup {<<ExampleHaishin, ExampleKaishi>>} \cup ChainInputs
      \cup InterruptedInputs
LangHints == {"ja", "en"}

-----------------------------------------------------------------------------
(* The merge engine as a state machine: one call of                        *)
(* process_ocr_results_merge_lines(ocr_output_raw_segments, lang_hint)     *)

\* no call of wrap_text_pil is under way
WrapIdle ==
    /\ PILLOW_AVAILABLE = TRUE
    /\ wrap_args = <<>>
    /\ wrap_loop = <<>>
    /\ wrap_result = <<>>
    /\ wrap_pc = "idle"

\* no call of _adjust_block_bbox_for_text_fit is under way
FitIdle ==
    /\ fit_block = <<>>
    /\ fit_font = <<>>
    /\ fit_config = <<>>
    /\ fit_history = <<>>

\* the window as constructed: no image, no block, no gesture
\* (InteractiveLabel.__init__, main_window.py:62-88)
EditIdle ==
    /\ background_pixmap = FALSE
    /\ translation_worker = FALSE
    /\ processed_blocks = <<>>
    /\ selected_block = 0
    /\ dragging_block = FALSE
    /\ resizing_block = FALSE
    /\ rotating_block = FALSE
    /\ resize_corner = -1
    /\ initial_mouse_pos_on_drag = "None"
    /\ initial_block_bbox_on_drag = <<>>
    /\ resize_anchor_opposite_corner_orig = <<>>
    /\ initial_angle_on_rotate = 0
    /\ time_ns = 0
    /\ edit_counts = [translations |-> 0, presses |-> 0]
    /\ ids_assigned = {}
    /\ ids_reused = {}

\* no call of _render_single_block_pil_for_preview is under way
RenderIdle ==
    /\ render_block = <<>>
    /\ render_font = <<>>
    /\ render_style = <<>>
    /\ render_result = <<>>

\* no call of get_font_line_height on its own is under way
LineHeightIdle ==
    /\ line_height_args = <<>>
    /\ line_height_result = <<>>

\* no call of is_sentence_end on its own is under way
SentenceIdle ==
    /\ sentence_text = <<>>
    /\ sentence_result = <<>>

\* no TranslationWorker is running
WorkerIdle ==
    /\ worker_pc = "idle"
    /\ cancellation_event = FALSE
    /\ worker_env = <<>>
    /\ last_error = "None"
    /\ worker_locals = <<>>
    /\ providers_attempted = <<>>
    /\ result_tuple = <<>>
    /\ finished_signal = <<>>

\* no call of translate_batch on its own is under way
TranslateIdle ==
    /\ translate_pc = "idle"
    /\ translate_event = FALSE
    /\ translate_args = <<>>
    /\ translate_loop = <<>>
    /\ translate_return = <<>>

\* no call of process_ocr_results_merge_lines is under way
MergeIdle ==
    /\ ocr_output_raw_segments = <<>>
    /\ lang_hint = "ja"
    /\ raw_blocks = <<>>
    /\ span_ids = <<>>
    /\ merged_results = <<>>
    /\ merge_pc = "idle"
    /\ ocr_results = <<>>

MergeInit ==
    /\ ocr_output_raw_segments \in MergeInputs
    /\ lang_hint \in LangHints
    /\ raw_blocks = <<>>
    /\ span_ids = <<>>
    /\ merged_results = <<>>
    /\ merge_pc = "call"
    /\ ocr_results = <<>>
    /\ WrapIdle
    /\ FitIdle
    /\ EditIdle
    /\ RenderIdle
    /\ LineHeightIdle
    /\ SentenceIdle
    /\ WorkerIdle
    /\ TranslateIdle

\* lines 213-294: the guard, the parsing loop and its two early returns
ParseFragments ==
    /\ merge_pc = "call"
    /\ LET p == parse_items(ocr_output_raw_segments, 0, <<>>)
       IN  IF ocr_output_raw_segments = <<>> \/ p.aborted \/ p.blocks = <<>>
           THEN /\ merge_pc' = "returned"
                /\ raw_blocks' = <<>>
           ELSE /\ merge_pc' = "parsed"
                /\ raw_blocks' = p.blocks
    /\ merged_results' = <<>>
    /\ UNCHANGED <<ocr_output_raw_segments, lang_hint, span_ids, ocr_results, outsideMerge>>

\* lines 297-369: sort, merge and return
MergeBlocks ==
    /\ merge_pc = "parsed"
    /\ LET spans == merge_raw_blocks(raw_blocks, lang_hint)
       IN  /\ merged_results' = result_tuples(spans)
           /\ span_ids' = [k \in 1..Len(spans) |-> spans[k].ids]
    /\ merge_pc' = "returned"
    /\ UNCHANGED <<ocr_output_raw_segments, lang_hint, raw_blocks, ocr_results, outsideMerge>>

\* ocr_providers.py:115-135 (PaddleOCRProvider) and 223-237
\* (GoogleVisionOCRProvider): the loop over the spans returned by
\* process_ocr_results_merge_lines, inside the try whose handler stores
\* last_error and returns None
RecognizeText ==
    /\ merge_pc = "returned"
    /\ ocr_results' = <<recognize_text(merged_results)>>
    /\ merge_pc' = "recognized"
    /\ UNCHANGED <<ocr_output_raw_segments, lang_hint, raw_blocks, span_ids, merged_results,
                   outsideMerge>>

MergeNext == ParseFragments \/ MergeBlocks \/ RecognizeText

SpecMerge == MergeInit /\ [][MergeNext]_vars

-----------------------------------------------------------------------------
(* Vocabulary of the merge claims, stated on the raw input and the output  *)

\* a fragment the specification does not discard: non-empty stripped text, a
\* 4-point or flat 8-number polygon of numbers, a bbox of positive area
WellFormed(item) ==
    /\ item.shape = "pair"
    /\ item.text_info_raw.kind \in {"tuple", "list", "str"}
    /\ Strip(item.text_info_raw.s) # <<>>
    /\ item.box_info_raw.kind \in {"list4", "list8"}
    /\ item.box_info_raw.kind = "list4" => \A q \in 1..4 : item.box_info_raw.pok[q]
    /\ \A idx \in 1..8 : item.box_info_raw.c[idx].k = "num"
    /\ LET b == bbox_rect_of(vertices_of(item.box_info_raw))
       IN  b[3] > b[1] /\ b[4] > b[2]

\* 0-based positions of the well-formed fragments of the input
WellFormedIds ==
    {i \in 0..(Len(ocr_output_raw_segments) - 1) : WellFormed(ocr_output_raw_segments[i + 1])}

\* the stripped text and the bbox of the input fragment at 0-based position i
FragText(i) == Strip(ocr_output_raw_segments[i + 1].text_info_raw.s)
FragBox(i) == bbox_rect_of(vertices_of(ocr_output_raw_segments[i + 1].box_info_raw))

\* how often character ch occurs in text t
Occurrences(t, ch) == Cardinality({k \in 1..Len(t) : t[k] = ch})

RECURSIVE SumOver(_, _, _)
\* sum of f[k] for k in lo..hi
SumOver(f, lo, hi) == IF lo > hi THEN 0 ELSE f[lo] + SumOver(f, lo + 1, hi)

MergeAlphabet ==
    UNION {{FragText(i)[k] : k \in 1..Len(FragText(i))} : i \in WellFormedIds} \cup {" "}

OutputCount(ch) ==
    SumOver([k \in 1..Len(merged_results) |-> Occurrences(merged_results[k][1], ch)],
            1, Len(merged_results))

RECURSIVE InputCountOf(_, _)
InputCountOf(ids, ch) ==
    IF ids = {} THEN 0
    ELSE LET i == CHOOSE x \in ids : TRUE
         IN  Occurrences(FragText(i), ch) + InputCountOf(ids \ {i}, ch)

InputCount(ch) == InputCountOf(WellFormedIds, ch)

\* the merges performed: fragments consumed minus spans emitted
MergesDone == SumOver([k \in 1..Len(span_ids) |-> Len(span_ids[k]) - 1], 1, Len(span_ids))

\* every well-formed fragment is in exactly one span, and nothing else is
EachFragmentInOneSpan ==
    /\ \A i \in WellFormedIds :
          Cardinality({<<k, q>> \in (1..Len(span_ids)) \X (1..Len(ocr_output_raw_segments)) :
                          q <= Len(span_ids[k]) /\ span_ids[k][q] = i}) = 1
    /\ \A k \in 1..Len(span_ids) : \A q \in 1..Len(span_ids[k]) : span_ids[k][q] \in WellFormedIds
    /\ Len(span_ids) = Len(merged_results)

\* the characters of the output are those of the well-formed fragments, plus
\* at most one join space per merge, and none under a CJK language hint
CharactersConserved ==
    /\ \A ch \in MergeAlphabet \ {" "} : OutputCount(ch) = InputCount(ch)
    /\ OutputCount(" ") >= InputCount(" ")
    /\ OutputCount(" ") <= InputCount(" ") + MergesDone
    /\ lang_hint \in cjk_lang_hints => OutputCount(" ") = InputCount(" ")

\* the call raised inside the parsing loop and returned [] from line 291
ParseAborted == parse_items(ocr_output_raw_segments, 0, <<>>).aborted

\* C1 (as claimed): for every input list each non-discarded fragment is
\* consumed into exactly one output span, and the characters of the output
\* are those of the non-discarded fragments plus the inserted join spaces.
C1_MergeNeverLosesText ==
    merge_pc = "returned" => EachFragmentInOneSpan /\ CharactersConserved

\* What does hold of the code: the same, on every call whose parsing loop
\* does not raise past its inner handlers.
MergeNeverLosesText_UnlessAborted ==
    (merge_pc = "returned" /\ ~ ParseAborted) => EachFragmentInOneSpan /\ CharactersConserved


\* the input list without its malformed fragments
WithoutMalformed(items) == SelectSeq(items, WellFormed)

\* C3 (as claimed): a malformed fragment is skipped on its own and never
\* aborts the batch: the call returns what it returns for the same list with
\* the malformed fragments removed, and [] when no fragment is well-formed.
C3_MalformedSkippedAlone ==
    merge_pc = "returned" =>
        /\ merged_results =
               process_ocr_results_merge_lines(WithoutMalformed(ocr_output_raw_segments), lang_hint)
        /\ WellFormedIds = {} => merged_results = <<>>

\* What does hold of the code: the same, unless a coordinate conversion raises
\* an exception other than ValueError/TypeError (OverflowError for an infinite
\* or too large number), which empties the whole result.
MalformedSkippedAlone_UnlessAborted ==
    (merge_pc = "returned" /\ ~ ParseAborted) =>
        merged_results =
            process_ocr_results_merge_lines(WithoutMalformed(ocr_output_raw_segments), lang_hint)

\* the input is exactly two fragments, both well-formed
TwoValidFragments ==
    /\ Len(ocr_output_raw_segments) = 2
    /\ WellFormedIds = {0, 1}

\* of two fragments, the one that sorts first by (y_min, x_min), input order
\* deciding ties, and the other one
FirstOfTwo == IF key_less([bbox |-> FragBox(1)], [bbox |-> FragBox(0)]) THEN 1 ELSE 0
SecondOfTwo == 1 - FirstOfTwo

ProximityOfTwo ==
    check_horizontal_proximity([bbox |-> FragBox(FirstOfTwo)], [bbox |-> FragBox(SecondOfTwo)])

RECURSIVE Interleave(_, _)
Interleave(ts, seps) ==
    IF Len(ts) <= 1 THEN Concat(ts)
    ELSE ts[1] \o seps[1] \o Interleave(Tail(ts), Tail(seps))

RECURSIVE UnionBox(_)
\* the union of a non-empty list of boxes
UnionBox(bs) ==
    IF Len(bs) = 1 THEN bs[1]
    ELSE LET u == UnionBox(Tail(bs))
         IN  <<Min2(bs[1][1], u[1]), Min2(bs[1][2], u[2]), Max2(bs[1][3], u[3]), Max2(bs[1][4], u[4])>>

CentresTwoHeightsApart(a, b) ==
    Abs((a[2] + a[4]) - (b[2] + b[4])) = 2 * ((a[4] - a[2]) + (b[4] - b[2]))

\* C5 (as claimed): two fragments whose vertical centre lines are 2 x their
\* average height apart are never merged into the same span.
C5_DistantNeverInSameSpan ==
    merge_pc = "returned" =>
        \A k \in 1..Len(span_ids) : \A q, r \in 1..Len(span_ids[k]) :
            ~ CentresTwoHeightsApart(FragBox(span_ids[k][q]), FragBox(span_ids[k][r]))

\* C5 (amended): two such fragments are never merged one directly after the
\* other (consecutive fragments of a span are at most 0.6 x their average
\* height apart), and a list of just those two fragments yields two spans;
\* only a chain of intermediate fragments can bring them into one span.
C5_DistantNeverMergedDirectly ==
    merge_pc = "returned" =>
        /\ \A k \in 1..Len(span_ids) : \A q \in 1..(Len(span_ids[k]) - 1) :
              LET a == FragBox(span_ids[k][q])
                  b == FragBox(span_ids[k][q + 1])
              IN  /\ ~ CentresTwoHeightsApart(a, b)
                  /\ 5 * Abs((a[2] + a[4]) - (b[2] + b[4])) <= 3 * ((a[4] - a[2]) + (b[4] - b[2]))
        /\ (TwoValidFragments /\ CentresTwoHeightsApart(FragBox(0), FragBox(1))) =>
              Len(merged_results) = 2

\* C5 witness: two fragments 2 x their average height apart, horizontally
\* adjacent (no gap, no overlap), the first not sentence-complete: two spans
C5_Witness ==
    /\ merge_pc = "returned" /\ TwoValidFragments
    /\ CentresTwoHeightsApart(FragBox(0), FragBox(1))
    /\ FragBox(FirstOfTwo)[3] = FragBox(SecondOfTwo)[1]
    /\ ~ is_sentence_end(FragText(FirstOfTwo))
    /\ Len(merged_results) = 2

\* the parsed block of the input fragment at 0-based position i
FragBlock(i) == [id |-> i, text |-> FragText(i), bbox |-> FragBox(i)]

\* the ids of the parsed fragments in the scan order of line 297
SortedIds == [k \in 1..Len(raw_blocks) |-> sort_blocks(raw_blocks)[k].id]

\* no fragment's text ends in sentence punctuation or a closing bracket, so
\* no line built from the fragments is sentence-complete
NoFragmentEndsSentence ==
    \A i \in WellFormedIds :
        FragText(i)[Len(FragText(i))] \notin (end_chars \cup closing_brackets)

\* the fragments form a chain in scan order: each is in proximity of the
\* one before it
ChainInScanOrder ==
    /\ Len(raw_blocks) >= 2
    /\ \A k \in 1..(Len(raw_blocks) - 1) :
          check_horizontal_proximity(FragBlock(SortedIds[k]), FragBlock(SortedIds[k + 1]))

\* C21: while a span is built, each candidate is tested against the most
\* recently merged fragment (every fragment of a span is in proximity of the
\* one merged just before it; neither the span's first fragment nor its
\* accumulated bbox need be), and scanning continues after a merge: a chain
\* of fragments, each in proximity of its predecessor and none completing a
\* sentence, becomes one span however far its last fragment is from the first.
C21_ProximityAgainstLastMerged ==
    merge_pc = "returned" =>
        /\ \A k \in 1..Len(span_ids) : \A q \in 1..(Len(span_ids[k]) - 1) :
              check_horizontal_proximity(FragBlock(span_ids[k][q]), FragBlock(span_ids[k][q + 1]))
        /\ (ChainInScanOrder /\ NoFragmentEndsSentence) =>
              /\ Len(span_ids) = 1
              /\ span_ids[1] = SortedIds

\* C21 witness: a chain of three merged into one span although its last
\* fragment is in proximity neither of the first fragment (the gap is beyond
\* 1.5 x the average height) nor of the bbox accumulated before it
C21_Witness ==
    /\ merge_pc = "returned"
    /\ Len(span_ids) = 1 /\ Len(span_ids[1]) = 3
    /\ LET first == FragBlock(span_ids[1][1])
           second == FragBlock(span_ids[1][2])
           last == FragBlock(span_ids[1][3])
       IN  /\ ~ check_horizontal_proximity(first, last)
           /\ 4 * (last.bbox[1] - first.bbox[3]) > 3 * 10
           /\ ~ check_horizontal_proximity([bbox |-> UnionBox(<<first.bbox, second.bbox>>)], last)

\* the position of fragment i in the scan order
ScanPosition(i) == CHOOSE k \in 1..Len(raw_blocks) : SortedIds[k] = i

\* the candidate fragment i would be merged into span k as it was emitted:
\* the span's text is not sentence-complete and i is in proximity of the
\* span's last fragment
WouldMerge(k, i) ==
    /\ ~ is_sentence_end(merged_results[k][1])
    /\ check_horizontal_proximity(FragBlock(span_ids[k][Len(span_ids[k])]), FragBlock(i))

\* C22: the first unconsumed candidate in sorted (y_min, x_min) order that
\* fails to merge ends the scan and the span is emitted: the spans are
\* consecutive runs of the scan order, each ended by the fragment that
\* opens the next span, which failed to merge; no fragment later in the
\* order is merged into an ended span, even one that would pass the test,
\* and the fragments already consumed are skipped without ending any scan.
C22_FirstFailureEndsSpan ==
    merge_pc = "returned" =>
        /\ Concat(span_ids) = SortedIds
        /\ \A k \in 1..(Len(span_ids) - 1) : ~ WouldMerge(k, span_ids[k + 1][1])

\* C22 witness: a span ended by a failing candidate although a fragment
\* later in the scan order would have merged into it
C22_Witness ==
    /\ merge_pc = "returned"
    /\ \E k \in 1..(Len(span_ids) - 1) : \E i \in WellFormedIds :
          /\ ScanPosition(i) > ScanPosition(span_ids[k + 1][1])
          /\ WouldMerge(k, i)

------------------------------------------------------------\* C27: every span (text, bbox) returned by process_ocr_results_merge_lines is
\* turned by recognize_text into one OCRResult carrying that text and that
\* bbox: the call returns a list, as long as the merge output, and does not
\* fail because of the shape of the merge output.
C27_EverySpanBecomesOCRResult ==
    merge_pc = "recognized" =>
        LET r == ocr_results[1]
        IN  /\ r.returned = "list"
            /\ Len(r.results) = Len(merged_results)
            /\ \A k \in 1..Len(merged_results) :
                   /\ r.results[k].text = merged_results[k][1]
                   /\ r.results[k].bbox = merged_results[k][2]

-----------------
(* Fonts and measurement  (Pillow, as used by utils/font_utils.py)         *)
(*                                                                         *)
(* A font is a record:                                                     *)
(*   loaded       FALSE for font = None                                    *)
(*   has_size     hasattr(font, 'size'), and size its value                *)
(*   has_getbbox  hasattr(font, 'getbbox'); bbox_top, bbox_bottom are      *)
(*                getbbox("AgyQI M")[1] and [3]                            *)
(*   has_getmask  hasattr(font, 'getmask'), mask_h = getmask("A").size[1]  *)
(*   metrics_raise a metric call raises (the except of line 158 runs)      *)
(*   adv          advance width of each character, in sub-pixel units      *)
(*   m_len        font.getlength("M"), in sub-pixel units                  *)
(* Lengths that Pillow returns as floats are integers in units of 1/SubPx  *)
(* pixel; textlength is the sum of the advance widths of the characters.   *)

SubPx == 2              \* sub-pixel units per pixel
default_font_size_16 == 16

\* int(x) of a float given in sub-pixel units: truncation towards zero
IntOfUnits(u) == IF u >= 0 THEN u \div SubPx ELSE -((-u) \div SubPx)

\* int(n * 0.15), int(n * 1.2), int(n * 1.25), int(n * 0.5) for an integer n >= 0
IntTimes015(n) == (n * 15) \div 100
IntTimes120(n) == (n * 12) \div 10
IntTimes125(n) == (n * 125) \div 100
IntTimes050(n) == n \div 2

\* mutant: get_font_line_height without the final fallback of lines 155-156
get_font_line_height_without_final_fallback(pillow, font, default_size, vertical_spacing_px) ==
    IF ~ pillow \/ ~ font.loaded THEN IntTimes120(default_size) + vertical_spacing_px
    ELSE LET font_size_from_font == IF font.has_size THEN font.size ELSE default_size
             calculated_height == font.bbox_bottom - font.bbox_top
             after_getbbox ==
                 IF font.has_getbbox
                 THEN IF calculated_height > 0
                      THEN calculated_height + Max2(1, IntTimes015(font_size_from_font))
                      ELSE IntTimes125(font_size_from_font)
                 ELSE 0
             after_getmask ==
                 IF after_getbbox <= 0 /\ font.has_getmask
                 THEN font.mask_h + Max2(2, IntTimes015(font_size_from_font))
                 ELSE after_getbbox
             line_height ==
                 IF font.metrics_raise THEN IntTimes120(font_size_from_font) ELSE after_getmask
         IN  Max2(line_height, IntTimes050(font_size_from_font)) + vertical_spacing_px

\* get_font_line_height (lines 108-164)
get_font_line_height(pillow, font, default_size, vertical_spacing_px) ==
    IF ~ pillow \/ ~ font.loaded THEN IntTimes120(default_size) + vertical_spacing_px
    ELSE LET font_size_from_font == IF font.has_size THEN font.size ELSE default_size
             calculated_height == font.bbox_bottom - font.bbox_top
             after_getbbox ==
                 IF font.has_getbbox
                 THEN IF calculated_height > 0
                      THEN calculated_height + Max2(1, IntTimes015(font_size_from_font))
                      ELSE IntTimes125(font_size_from_font)
                 ELSE 0
             after_getmask ==
                 IF after_getbbox <= 0 /\ font.has_getmask
                 THEN font.mask_h + Max2(2, IntTimes015(font_size_from_font))
                 ELSE after_getbbox
             after_fallback ==
                 IF after_getmask <= 0 THEN IntTimes120(font_size_from_font) ELSE after_getmask
             line_height ==
                 IF font.metrics_raise THEN IntTimes120(font_size_from_font) ELSE after_fallback
         IN  Max2(line_height, IntTimes050(font_size_from_font)) + vertical_spacing_px

RECURSIVE textlength(_, _)
\* draw.textlength(text, font=font) of a text without newline, in units
textlength(font, t) == IF t = <<>> THEN 0 ELSE font.adv[Head(t)] + textlength(font, Tail(t))

\* lines 229-230, 238-240, 248-249, 267-268: the width of a line with its
\* character spacing, in units
line_width(font, t, char_spacing_px) ==
    textlength(font, t)
      + (IF Len(t) > 1 /\ char_spacing_px # 0 THEN char_spacing_px * (Len(t) - 1) * SubPx ELSE 0)

HasNewline(t) == \E k \in 1..Len(t) : t[k] = "\n"

\* default_font_size (lines 184-186)
default_font_size_of(pillow, font) ==
    IF pillow /\ font.loaded /\ font.has_size THEN font.size ELSE default_font_size_16

\* the guard of line 188
wrap_guard(pillow, a) ==
    a.text = <<>> \/ a.max_dim <= 0 \/ ~ pillow \/ ~ a.font.loaded \/ ~ a.draw

\* mutant: total height returned without the "if text else 0" of line 197
wrap_fallback_total_for_empty(pillow, a) ==
    LET dfs == default_font_size_of(pillow, a.font)
        h == IF a.orientation = "horizontal"
             THEN get_font_line_height(pillow, a.font, dfs, a.line_or_col_spacing_px)
             ELSE get_font_line_height(pillow, a.font, dfs, a.char_spacing_px)
    IN  <<IF a.text # <<>> THEN <<a.text>> ELSE <<>>, h, h, 0>>

\* what a call leaves behind when an exception escapes it
Raised == <<"raised">>

\* mutant: draw.textlength of line 194 called outside the try, so that its
\* ValueError on multi-line text (AttributeError without a draw object) escapes
wrap_fallback_uncaught_textlength(pillow, a) ==
    IF a.text # <<>> /\ a.font.loaded /\ a.orientation = "horizontal"
          /\ (~ a.draw \/ HasNewline(a.text))
    THEN Raised
    ELSE
    LET dfs == default_font_size_of(pillow, a.font)
    IN  IF a.orientation = "horizontal"
        THEN LET line_h_calc == get_font_line_height(pillow, a.font, dfs, a.line_or_col_spacing_px)
                 \* draw.textlength raises without a draw object and on
                 \* multi-line text; the bare except of line 195 then estimates
                 text_len_approx ==
                     IF a.text # <<>> /\ a.font.loaded
                     THEN IF a.draw /\ ~ HasNewline(a.text)
                          THEN textlength(a.font, a.text)
                          ELSE ((Len(a.text) * dfs) \div 2) * SubPx
                     ELSE 0
             IN  <<IF a.text # <<>> THEN <<a.text>> ELSE <<>>,
                   IF a.text # <<>> THEN line_h_calc ELSE 0,
                   line_h_calc,
                   IntOfUnits(text_len_approx)>>
        ELSE LET char_h_in_col_calc == get_font_line_height(pillow, a.font, dfs, a.char_spacing_px)
                 measured == IF a.font.has_getlength THEN a.font.m_len
                             ELSE IF a.font.has_size THEN a.font.size * SubPx
                             ELSE dfs * SubPx
                 avg_char_width_approx ==
                     IF a.text # <<>> /\ a.font.loaded
                     THEN IF measured = 0 THEN dfs * SubPx ELSE measured
                     ELSE dfs * SubPx
             IN  <<IF a.text # <<>> THEN <<a.text>> ELSE <<>>,
                   IF a.text # <<>> THEN IntOfUnits(avg_char_width_approx) ELSE 0,
                   char_h_in_col_calc,
                   IF a.text # <<>> THEN Len(a.text) * char_h_in_col_calc ELSE 0>>

\* lines 188-207: the unwrapped result returned when the guard holds
wrap_fallback(pillow, a) ==
    LET dfs == default_font_size_of(pillow, a.font)
    IN  IF a.orientation = "horizontal"
        THEN LET line_h_calc == get_font_line_height(pillow, a.font, dfs, a.line_or_col_spacing_px)
                 \* draw.textlength raises without a draw object and on
                 \* multi-line text; the bare except of line 195 then estimates
                 text_len_approx ==
                     IF a.text # <<>> /\ a.font.loaded
                     THEN IF a.draw /\ ~ HasNewline(a.text)
                          THEN textlength(a.font, a.text)
                          ELSE ((Len(a.text) * dfs) \div 2) * SubPx
                     ELSE 0
             IN  <<IF a.text # <<>> THEN <<a.text>> ELSE <<>>,
                   IF a.text # <<>> THEN line_h_calc ELSE 0,
                   line_h_calc,
                   IntOfUnits(text_len_approx)>>
        ELSE LET char_h_in_col_calc == get_font_line_height(pillow, a.font, dfs, a.char_spacing_px)
                 measured == IF a.font.has_getlength THEN a.font.m_len
                             ELSE IF a.font.has_size THEN a.font.size * SubPx
                             ELSE dfs * SubPx
                 avg_char_width_approx ==
                     IF a.text # <<>> /\ a.font.loaded
                     THEN IF measured = 0 THEN dfs * SubPx ELSE measured
                     ELSE dfs * SubPx
             IN  <<IF a.text # <<>> THEN <<a.text>> ELSE <<>>,
                   IF a.text # <<>> THEN IntOfUnits(avg_char_width_approx) ELSE 0,
                   char_h_in_col_calc,
                   IF a.text # <<>> THEN Len(a.text) * char_h_in_col_calc ELSE 0>>

-----------------------------------------------------------------------------
(* wrap_text_pil, the wrapping loops  (utils/font_utils.py:209-342)        *)
(* The locals of a loop are a record:                                      *)
(*   output_segments, current_line_text (current_col_chars_list in the     *)
(*   vertical branch), current_char_idx (0-based; the position of the      *)
(*   for-loop in the vertical branch), max_achieved                        *)
(*   (max_line_width_achieved in units / max_col_height_achieved in        *)
(*   pixels) and current_col_pixel_height                                  *)

\* lines 209-222 and 297-299
wrap_loop_start ==
    [output_segments |-> <<>>, current_line_text |-> <<>>, current_char_idx |-> 0,
     max_achieved |-> 0, current_col_pixel_height |-> 0]

\* lines 228-231, 247-250, 266-269: the current line is closed
close_line(a, w) ==
    [w EXCEPT !.output_segments = Append(@, w.current_line_text),
              !.max_achieved = Max2(@, line_width(a.font, w.current_line_text, a.char_spacing_px))]

\* mutant: on overflow the current line is closed but the overflowing
\* character is not carried to the new line
horizontal_step_dropping_overflow(a, w) ==
    LET char_val == a.text[w.current_char_idx + 1]
        test_line == Append(w.current_line_text, char_val)
        next_idx == w.current_char_idx + 1
    IN  IF char_val = "\n"
        THEN LET closed == IF w.current_line_text # <<>> THEN close_line(a, w) ELSE w
             IN  [closed EXCEPT !.output_segments = Append(@, <<>>),
                                !.current_line_text = <<>>,
                                !.current_char_idx = next_idx]
        ELSE IF line_width(a.font, test_line, a.char_spacing_px) <= a.max_dim * SubPx
             THEN [w EXCEPT !.current_line_text = test_line, !.current_char_idx = next_idx]
        ELSE IF w.current_line_text # <<>>
             THEN [close_line(a, w) EXCEPT !.current_line_text = <<>>,
                                           !.current_char_idx = next_idx]
        ELSE [w EXCEPT !.current_line_text = <<char_val>>, !.current_char_idx = next_idx]

\* mutant: the test width leaves out the character spacing of lines 239-240
horizontal_step_without_spacing(a, w) ==
    LET char_val == a.text[w.current_char_idx + 1]
        test_line == Append(w.current_line_text, char_val)
        next_idx == w.current_char_idx + 1
    IN  IF char_val = "\n"
        THEN LET closed == IF w.current_line_text # <<>> THEN close_line(a, w) ELSE w
             IN  [closed EXCEPT !.output_segments = Append(@, <<>>),
                                !.current_line_text = <<>>,
                                !.current_char_idx = next_idx]
        ELSE IF textlength(a.font, test_line) <= a.max_dim * SubPx
             THEN [w EXCEPT !.current_line_text = test_line, !.current_char_idx = next_idx]
        ELSE LET closed == IF w.current_line_text # <<>> THEN close_line(a, w) ELSE w
             IN  [closed EXCEPT !.current_line_text = <<char_val>>,
                                !.current_char_idx = next_idx]

\* mutant: a newline closes the current line without the empty marker
horizontal_step_no_marker_after_text(a, w) ==
    LET char_val == a.text[w.current_char_idx + 1]
        test_line == Append(w.current_line_text, char_val)
        next_idx == w.current_char_idx + 1
    IN  IF char_val = "\n"
        THEN IF w.current_line_text # <<>>
             THEN [close_line(a, w) EXCEPT !.current_line_text = <<>>,
                                           !.current_char_idx = next_idx]
             ELSE [w EXCEPT !.output_segments = Append(@, <<>>),
                            !.current_char_idx = next_idx]
        ELSE IF line_width(a.font, test_line, a.char_spacing_px) <= a.max_dim * SubPx
             THEN [w EXCEPT !.current_line_text = test_line, !.current_char_idx = next_idx]
        ELSE LET closed == IF w.current_line_text # <<>> THEN close_line(a, w) ELSE w
             IN  [closed EXCEPT !.current_line_text = <<char_val>>,
                                !.current_char_idx = next_idx]

\* mutant: on overflow the line is closed and the character is tried again on
\* the next iteration instead of being taken
horizontal_step_retrying_overflow(a, w) ==
    LET char_val == a.text[w.current_char_idx + 1]
        test_line == Append(w.current_line_text, char_val)
        next_idx == w.current_char_idx + 1
    IN  IF char_val = "\n"
        THEN LET closed == IF w.current_line_text # <<>> THEN close_line(a, w) ELSE w
             IN  [closed EXCEPT !.output_segments = Append(@, <<>>),
                                !.current_line_text = <<>>,
                                !.current_char_idx = next_idx]
        ELSE IF line_width(a.font, test_line, a.char_spacing_px) <= a.max_dim * SubPx
             THEN [w EXCEPT !.current_line_text = test_line, !.current_char_idx = next_idx]
        ELSE IF w.current_line_text # <<>>
             THEN [close_line(a, w) EXCEPT !.current_line_text = <<>>]
        ELSE [w EXCEPT !.current_line_text = <<char_val>>, !.current_char_idx = next_idx]

\* one iteration of the while loop of lines 223-263
horizontal_step(a, w) ==
    LET char_val == a.text[w.current_char_idx + 1]
        test_line == Append(w.current_line_text, char_val)
        next_idx == w.current_char_idx + 1
    IN  IF char_val = "\n"
        THEN LET closed == IF w.current_line_text # <<>> THEN close_line(a, w) ELSE w
             IN  [closed EXCEPT !.output_segments = Append(@, <<>>),
                                !.current_line_text = <<>>,
                                !.current_char_idx = next_idx]
        ELSE IF line_width(a.font, test_line, a.char_spacing_px) <= a.max_dim * SubPx
             THEN [w EXCEPT !.current_line_text = test_line, !.current_char_idx = next_idx]
        ELSE \* lines 246-260: after closing a non-empty line current_line_text
             \* is "", so the test of line 256 always succeeds
             LET closed == IF w.current_line_text # <<>> THEN close_line(a, w) ELSE w
             IN  [closed EXCEPT !.current_line_text = <<char_val>>,
                                !.current_char_idx = next_idx]

\* lines 265-283: the last line, the fallback of 271-274 and the result
horizontal_return(pillow, a, w) ==
    LET single_segment_dim_secondary ==
            get_font_line_height(pillow, a.font, default_font_size_of(pillow, a.font),
                                 a.line_or_col_spacing_px)
        last == IF w.current_line_text # <<>> THEN close_line(a, w) ELSE w
        segs == IF last.output_segments = <<>> /\ a.text # <<>>
                THEN <<a.text>> ELSE last.output_segments
        widest == IF last.output_segments = <<>> /\ a.text # <<>>
                  THEN line_width(a.font, a.text, a.char_spacing_px) ELSE last.max_achieved
        total_dim_primary ==
            IF segs # <<>> /\ a.text # <<>> THEN Len(segs) * single_segment_dim_secondary ELSE 0
    IN  <<segs, total_dim_primary, single_segment_dim_secondary, IntOfUnits(widest)>>

\* lines 304-305, 316-317, 323-324: the current column is closed
close_column(w) ==
    [w EXCEPT !.output_segments = Append(@, w.current_line_text),
              !.max_achieved = Max2(@, w.current_col_pixel_height)]

\* one iteration of the for loop of lines 301-320
vertical_step(pillow, a, w) ==
    LET char_val == a.text[w.current_char_idx + 1]
        next_idx == w.current_char_idx + 1
        single_char_height_in_col_with_spacing ==
            get_font_line_height(pillow, a.font, default_font_size_of(pillow, a.font),
                                 a.char_spacing_px)
    IN  IF char_val = "\n"
        THEN LET closed == IF w.current_line_text # <<>> THEN close_column(w) ELSE w
             IN  [closed EXCEPT !.output_segments = Append(@, <<>>),
                                !.current_line_text = <<>>,
                                !.current_col_pixel_height = 0,
                                !.current_char_idx = next_idx]
        ELSE IF \/ w.current_line_text = <<>>
                \/ w.current_col_pixel_height + single_char_height_in_col_with_spacing <= a.max_dim
             THEN [w EXCEPT !.current_line_text = Append(@, char_val),
                            !.current_col_pixel_height = @ + single_char_height_in_col_with_spacing,
                            !.current_char_idx = next_idx]
        ELSE [close_column(w) EXCEPT !.current_line_text = <<char_val>>,
                                     !.current_col_pixel_height = single_char_height_in_col_with_spacing,
                                     !.current_char_idx = next_idx]

\* lines 287-295 (column width metric) and 322-342
vertical_return(pillow, a, w) ==
    LET dfs == default_font_size_of(pillow, a.font)
        single_char_height_in_col_with_spacing ==
            get_font_line_height(pillow, a.font, dfs, a.char_spacing_px)
        size_or_default == IF a.font.has_size THEN a.font.size * SubPx ELSE dfs * SubPx
        measured == IF a.font.has_getlength
                    THEN IF a.font.m_len = 0 THEN size_or_default ELSE a.font.m_len
                    ELSE size_or_default
        col_width_metric_for_total == IF measured = 0 THEN dfs * SubPx ELSE measured
        last == IF w.current_line_text # <<>> THEN close_column(w) ELSE w
        segs == IF last.output_segments = <<>> /\ a.text # <<>>
                THEN <<a.text>> ELSE last.output_segments
        tallest == IF last.output_segments = <<>> /\ a.text # <<>>
                   THEN Len(a.text) * single_char_height_in_col_with_spacing
                   ELSE last.max_achieved
        num_cols == Len(segs)
        total_dim_primary ==
            IF segs # <<>> /\ a.text # <<>>
            THEN num_cols * col_width_metric_for_total
                   + (IF num_cols > 1 THEN (num_cols - 1) * a.line_or_col_spacing_px * SubPx ELSE 0)
            ELSE 0
    IN  <<segs, IntOfUnits(total_dim_primary), single_char_height_in_col_with_spacing, tallest>>

\* one iteration of the loop of the orientation
wrap_step(pillow, a, w) ==
    IF a.orientation = "horizontal" THEN horizontal_step(a, w) ELSE vertical_step(pillow, a, w)

RECURSIVE wrap_run(_, _, _)
\* the loop run to its end (the locals after an iteration are bound as a value
\* before the next iteration reads them)
wrap_run(pillow, a, w) ==
    IF w.current_char_idx >= Len(a.text) THEN w
    ELSE CHOOSE r \in {wrap_run(pillow, a, next_w) : next_w \in {wrap_step(pillow, a, w)}} : TRUE

\* the whole function, as a value
wrap_text_pil(pillow, a) ==
    IF wrap_guard(pillow, a) THEN wrap_fallback(pillow, a)
    ELSE IF a.orientation = "horizontal"
         THEN CHOOSE r \in {horizontal_return(pillow, a, w) :
                                w \in {wrap_run(pillow, a, wrap_loop_start)}} : TRUE
         ELSE CHOOSE r \in {vertical_return(pillow, a, w) :
                                w \in {wrap_run(pillow, a, wrap_loop_start)}} : TRUE

-----------------------------------------------------------------------------
(* Inputs of the wrapping engine                                           *)

MaxTextLen == 3     \* longest text wrapped
MaxDim == 5         \* largest max_dim, in pixels

WrapAlphabet == {"i", "W", "\n"}
WrapTexts == UNION {[1..n -> WrapAlphabet] : n \in 0..MaxTextLen}

\* font = None
NoFont ==
    [loaded |-> FALSE, has_size |-> FALSE, size |-> 0,
     has_getbbox |-> FALSE, bbox_top |-> 0, bbox_bottom |-> 0,
     has_getmask |-> FALSE, mask_h |-> 0, metrics_raise |-> FALSE,
     has_getlength |-> FALSE, m_len |-> 0,
     adv |-> [ch \in WrapAlphabet |-> 0]]

\* a small FreeType face: line height 1 + leading 1 = 2 px; "i" is half a
\* pixel wide, "W" and "M" are 1.5 px
SmallFont ==
    [loaded |-> TRUE, has_size |-> TRUE, size |-> 2,
     has_getbbox |-> TRUE, bbox_top |-> 0, bbox_bottom |-> 1,
     has_getmask |-> TRUE, mask_h |-> 1, metrics_raise |-> FALSE,
     has_getlength |-> TRUE, m_len |-> 3,
     adv |-> [ch \in WrapAlphabet |-> IF ch = "i" THEN 1 ELSE 3]]

\* a bitmap face without size and getbbox: line height 7 + 2 = 9 px, taller
\* than every max_dim of the model; "i" is 1.5 px wide, "W" and "M" half a
\* pixel wider than the largest max_dim of the model
BitmapFont ==
    [loaded |-> TRUE, has_size |-> FALSE, size |-> 0,
     has_getbbox |-> FALSE, bbox_top |-> 0, bbox_bottom |-> 0,
     has_getmask |-> TRUE, mask_h |-> 7, metrics_raise |-> FALSE,
     has_getlength |-> TRUE, m_len |-> MaxDim * SubPx + 1,
     adv |-> [ch \in WrapAlphabet |-> IF ch = "i" THEN SubPx + 1 ELSE MaxDim * SubPx + 1]]

\* <<PILLOW_AVAILABLE, font, draw>>: without Pillow there is neither a font
\* nor a draw object
WrapEnvironments ==
    {<<TRUE, SmallFont, TRUE>>, <<TRUE, BitmapFont, TRUE>>,
     <<TRUE, NoFont, TRUE>>, <<FALSE, NoFont, FALSE>>}

-----------------------------------------------------------------------------
(* The wrapping engine as a state machine: one call of wrap_text_pil       *)

WrapInit ==
    /\ MergeIdle
    /\ FitIdle
    /\ EditIdle
    /\ RenderIdle
    /\ LineHeightIdle
    /\ SentenceIdle
    /\ WorkerIdle
    /\ TranslateIdle
    /\ \E env \in WrapEnvironments, t \in WrapTexts, d \in 0..MaxDim,
          o \in {"horizontal", "vertical"}, cs \in {-1, 0, 1}, ls \in {0, 1} :
          /\ PILLOW_AVAILABLE = env[1]
          /\ wrap_args = [text |-> t, font |-> env[2], draw |-> env[3], max_dim |-> d,
                          orientation |-> o, char_spacing_px |-> cs,
                          line_or_col_spacing_px |-> ls]
    /\ wrap_loop = wrap_loop_start
    /\ wrap_result = <<>>
    /\ wrap_pc = "call"

\* lines 188-207: the guard holds, the unwrapped result is returned
WrapFallback ==
    /\ wrap_pc = "call"
    /\ wrap_guard(PILLOW_AVAILABLE, wrap_args)
    /\ wrap_result' = wrap_fallback(PILLOW_AVAILABLE, wrap_args)
    /\ wrap_pc' = "returned"
    /\ UNCHANGED <<PILLOW_AVAILABLE, wrap_args, wrap_loop, outsideWrap>>

\* lines 209-222 / 285-299: the loop of the orientation is entered
WrapStart ==
    /\ wrap_pc = "call"
    /\ ~ wrap_guard(PILLOW_AVAILABLE, wrap_args)
    /\ wrap_loop' = wrap_loop_start
    /\ wrap_pc' = "loop"
    /\ UNCHANGED <<PILLOW_AVAILABLE, wrap_args, wrap_result, outsideWrap>>

\* lines 223-263: one iteration of the horizontal loop
WrapHorizontalStep ==
    /\ wrap_pc = "loop"
    /\ wrap_args.orientation = "horizontal"
    /\ wrap_loop.current_char_idx < Len(wrap_args.text)
    /\ wrap_loop' = horizontal_step(wrap_args, wrap_loop)
    /\ UNCHANGED <<PILLOW_AVAILABLE, wrap_args, wrap_result, wrap_pc, outsideWrap>>

\* lines 301-320: one iteration of the vertical loop
WrapVerticalStep ==
    /\ wrap_pc = "loop"
    /\ wrap_args.orientation # "horizontal"
    /\ wrap_loop.current_char_idx < Len(wrap_args.text)
    /\ wrap_loop' = vertical_step(PILLOW_AVAILABLE, wrap_args, wrap_loop)
    /\ UNCHANGED <<PILLOW_AVAILABLE, wrap_args, wrap_result, wrap_pc, outsideWrap>>

\* lines 265-283: the horizontal loop has ended
WrapHorizontalReturn ==
    /\ wrap_pc = "loop"
    /\ wrap_args.orientation = "horizontal"
    /\ wrap_loop.current_char_idx >= Len(wrap_args.text)
    /\ wrap_result' = horizontal_return(PILLOW_AVAILABLE, wrap_args, wrap_loop)
    /\ wrap_pc' = "returned"
    /\ UNCHANGED <<PILLOW_AVAILABLE, wrap_args, wrap_loop, outsideWrap>>

\* lines 322-342: the vertical loop has ended
WrapVerticalReturn ==
    /\ wrap_pc = "loop"
    /\ wrap_args.orientation # "horizontal"
    /\ wrap_loop.current_char_idx >= Len(wrap_args.text)
    /\ wrap_result' = vertical_return(PILLOW_AVAILABLE, wrap_args, wrap_loop)
    /\ wrap_pc' = "returned"
    /\ UNCHANGED <<PILLOW_AVAILABLE, wrap_args, wrap_loop, outsideWrap>>

WrapNext ==
    \/ WrapFallback
    \/ WrapStart
    \/ WrapHorizontalStep
    \/ WrapVerticalStep
    \/ WrapHorizontalReturn
    \/ WrapVerticalReturn

SpecWrap == WrapInit /\ [][WrapNext]_vars

\* the interpreter runs the call to its end: a step that can be taken is taken
SpecWrapFair == SpecWrap /\ WF_vars(WrapNext)

-----------------------------------------------------------------------------
(* Properties of the wrapping engine                                       *)

WrapReturned == wrap_pc = "returned"

\* the segment list of the returned tuple
returned_segments == wrap_result[1]

\* the precondition "maxDim > 0 and a loaded font": the font object exists,
\* which in every environment means Pillow and a draw context exist too
LoadedFontAndRoom == wrap_args.max_dim > 0 /\ wrap_args.font.loaded

WithoutNewlines(t) == SelectSeq(t, LAMBDA ch : ch # "\n")

\* height of one character cell of a column, spacing included
cell_height ==
    get_font_line_height(PILLOW_AVAILABLE, wrap_args.font,
                         default_font_size_of(PILLOW_AVAILABLE, wrap_args.font),
                         wrap_args.char_spacing_px)

\* measured extent of a segment along the wrapped axis, in sub-pixel units
measured_extent(seg) ==
    IF wrap_args.orientation = "horizontal"
    THEN textlength(wrap_args.font, seg) + wrap_args.char_spacing_px * (Len(seg) - 1) * SubPx
    ELSE Len(seg) * cell_height * SubPx

Fits(seg) == measured_extent(seg) <= wrap_args.max_dim * SubPx

\* C6: for maxDim > 0 and a loaded font, every returned segment of more than
\* one character has measured extent <= maxDim (horizontal: text width plus
\* charSpacing x (chars - 1); vertical: character count x cell height); only
\* a one-character segment may exceed maxDim.
C6_MultiCharSegmentsFit ==
    (WrapReturned /\ LoadedFontAndRoom) =>
        \A k \in 1..Len(returned_segments) :
            Len(returned_segments[k]) > 1 => Fits(returned_segments[k])

\* a wrapped result with a line of several characters that fits and a
\* one-character line that does not
C6_Witness ==
    /\ WrapReturned /\ LoadedFontAndRoom
    /\ \E k \in 1..Len(returned_segments) :
          Len(returned_segments[k]) > 1 /\ Fits(returned_segments[k])
    /\ \E k \in 1..Len(returned_segments) :
          Len(returned_segments[k]) = 1 /\ ~ Fits(returned_segments[k])

RoundTrip ==
    Concat(SelectSeq(returned_segments, LAMBDA seg : seg # <<>>)) = WithoutNewlines(wrap_args.text)

\* C7 as stated: for maxDim > 0 and both orientations, concatenating the
\* non-empty returned segments in order reproduces the input text with only
\* the newline characters removed.
C7_RoundTripForPositiveMaxDim ==
    (WrapReturned /\ wrap_args.max_dim > 0) => RoundTrip

\* C7 amended: the same for maxDim > 0 and a loaded font; without a font the
\* whole text, newlines included, is the one segment.
C7_RoundTripWithLoadedFont ==
    (WrapReturned /\ LoadedFontAndRoom) => RoundTrip

\* a text with a manual break that was also wrapped: three segments or more,
\* two of them non-empty
C7_Witness ==
    /\ WrapReturned /\ LoadedFontAndRoom
    /\ HasNewline(wrap_args.text)
    /\ Len(SelectSeq(returned_segments, LAMBDA seg : seg # <<>>)) >= 2
    /\ Len(returned_segments) >= 3

\* every iteration of either loop consumes exactly one input character
EveryIterationConsumesOne ==
    [][(wrap_pc = "loop" /\ wrap_pc' = "loop") =>
           wrap_loop'.current_char_idx = wrap_loop.current_char_idx + 1]_vars

WrapTerminates == <>WrapReturned

\* the segments emitted so far: while the loop runs, the closed segments and
\* the line or column being filled; afterwards the returned segments
emitted_segments ==
    IF wrap_pc = "returned" THEN returned_segments
    ELSE IF wrap_loop.current_line_text = <<>> THEN wrap_loop.output_segments
    ELSE Append(wrap_loop.output_segments, wrap_loop.current_line_text)

\* while a loop runs, the characters consumed so far are the characters
\* emitted so far, in order, the newlines apart
NothingDroppedSoFar ==
    wrap_pc = "loop" =>
        Concat(emitted_segments)
            = WithoutNewlines(SubSeq(wrap_args.text, 1, wrap_loop.current_char_idx))

\* the character alone does not fit maxDim
Oversize(ch) == ~ Fits(<<ch>>)

\* every emitted character that is oversize is the first of its segment
OversizeStartsSegment ==
    \A k \in 1..Len(emitted_segments) :
        \A j \in 2..Len(emitted_segments[k]) : ~ Oversize(emitted_segments[k][j])

\* every emitted character that is oversize is the first of its segment, or
\* sits in a segment that as a whole fits maxDim
OversizeStartsSegmentOrFits ==
    \A k \in 1..Len(emitted_segments) :
        \A j \in 2..Len(emitted_segments[k]) :
            Oversize(emitted_segments[k][j]) =>
                /\ wrap_args.orientation = "horizontal"
                /\ wrap_args.char_spacing_px < 0
                /\ Fits(emitted_segments[k])

InWrapLoopOrAfter == wrap_pc = "loop" \/ (WrapReturned /\ ~ wrap_guard(PILLOW_AVAILABLE, wrap_args))

\* C8 as stated: wrap_text_pil terminates on every input: every loop
\* iteration consumes exactly one input character, and a character whose own
\* width/height exceeds maxDim is still emitted as (the start of) its own
\* line/column instead of being dropped or retried forever.
C8_TerminatesOversizeStartsOwnSegment ==
    /\ WrapTerminates
    /\ EveryIterationConsumesOne
    /\ [](NothingDroppedSoFar /\ (InWrapLoopOrAfter => OversizeStartsSegment))

\* C8 amended: the same, except that in horizontal wrapping with negative
\* character spacing an oversize character may also join a line that, with
\* the spacing counted, still measures at most maxDim.
C8_TerminatesOversizeNeverDropped ==
    /\ WrapTerminates
    /\ EveryIterationConsumesOne
    /\ [](NothingDroppedSoFar /\ (InWrapLoopOrAfter => OversizeStartsSegmentOrFits))

\* a returned wrapping in which an oversize character follows other text and
\* starts a segment of its own
C8_Witness ==
    /\ WrapReturned /\ LoadedFontAndRoom
    /\ wrap_loop.current_char_idx = Len(wrap_args.text)
    /\ \E k \in 2..Len(returned_segments) :
          /\ returned_segments[k] # <<>>
          /\ Oversize(returned_segments[k][1])
          /\ returned_segments[k - 1] # <<>>

\* how the renderer reads the segments back: an empty segment is a manual break
RECURSIVE MarkersAsNewlines(_)
MarkersAsNewlines(segs) ==
    IF segs = <<>> THEN <<>>
    ELSE (IF Head(segs) = <<>> THEN <<"\n">> ELSE Head(segs)) \o MarkersAsNewlines(Tail(segs))

OneMarkerPerNewline ==
    /\ Len(SelectSeq(returned_segments, LAMBDA seg : seg = <<>>)) = Occurrences(wrap_args.text, "\n")
    /\ \A k \in 1..Len(returned_segments) : ~ HasNewline(returned_segments[k])
    /\ MarkersAsNewlines(returned_segments) = wrap_args.text

\* C9 as stated: for maxDim > 0, in both orientations each '\n' produces
\* exactly one empty segment at the position of the break and ends the
\* current line/column: as many empty segments as '\n', no segment contains
\* '\n', and wrapping itself never produces an empty segment.
C9_OneMarkerPerNewlineForPositiveMaxDim ==
    (WrapReturned /\ wrap_args.max_dim > 0) => OneMarkerPerNewline

\* C9 amended: the same for maxDim > 0 and a loaded font; without a font the
\* text is returned as one segment that still contains its '\n'.
C9_OneMarkerPerNewlineWithLoadedFont ==
    (WrapReturned /\ LoadedFontAndRoom) => OneMarkerPerNewline

\* a manual break between two pieces of text, in a text that also wrapped
C9_Witness ==
    /\ WrapReturned /\ LoadedFontAndRoom
    /\ \E k \in 2..(Len(returned_segments) - 1) :
          /\ returned_segments[k] = <<>>
          /\ returned_segments[k - 1] # <<>>
          /\ returned_segments[k + 1] # <<>>

\* the spacing that get_font_line_height adds for the orientation
secondary_spacing ==
    IF wrap_args.orientation = "horizontal" THEN wrap_args.line_or_col_spacing_px
    ELSE wrap_args.char_spacing_px

\* C10 as stated: wrap on empty text returns an empty segment list and zero
\* dimensions: total primary, per-segment secondary and maximum achieved
\* dimension are all 0, for both orientations.
C10_EmptyTextAllZero ==
    (WrapReturned /\ wrap_args.text = <<>>) => wrap_result = <<<<>>, 0, 0, 0>>

\* C10 amended: wrap on empty text returns an empty segment list, total
\* primary dimension 0 and maximum achieved dimension 0, for both
\* orientations; the per-segment secondary dimension is the line (cell)
\* height of the font with its spacing, int(1.2 x 16) plus spacing without a
\* font.
C10_EmptyTextZeroButLineHeight ==
    (WrapReturned /\ wrap_args.text = <<>>) =>
        /\ wrap_result[1] = <<>>
        /\ wrap_result[2] = 0
        /\ wrap_result[4] = 0
        /\ wrap_result[3] = get_font_line_height(PILLOW_AVAILABLE, wrap_args.font,
                                default_font_size_of(PILLOW_AVAILABLE, wrap_args.font),
                                secondary_spacing)
        /\ ~ wrap_args.font.loaded =>
               wrap_result[3] = IntTimes120(default_font_size_16) + secondary_spacing

\* empty text wrapped vertically with a loaded font and room
C10_Witness ==
    /\ WrapReturned /\ LoadedFontAndRoom
    /\ wrap_args.text = <<>>
    /\ wrap_args.orientation = "vertical"
    /\ wrap_result[3] > 0

\* C11: when maxDim <= 0 or the font is missing, wrap_text_pil returns the
\* whole non-empty text as exactly one unwrapped segment (also when the text
\* contains '\n') and never raises.
C11_FallbackReturnsWholeText ==
    (WrapReturned /\ wrap_args.text # <<>>
        /\ (wrap_args.max_dim <= 0 \/ ~ wrap_args.font.loaded)) =>
        /\ wrap_result # Raised
        /\ returned_segments = <<wrap_args.text>>

\* a text with a manual break, a loaded font and no room: the measurement of
\* line 194 fails on the multi-line text and the estimate of line 195 is used
C11_Witness ==
    /\ WrapReturned /\ wrap_args.font.loaded /\ wrap_args.max_dim <= 0
    /\ wrap_args.orientation = "horizontal"
    /\ HasNewline(wrap_args.text) /\ Len(wrap_args.text) > 1
    /\ returned_segments = <<wrap_args.text>>
    /\ wrap_result[4] = (Len(wrap_args.text) * default_font_size_of(PILLOW_AVAILABLE, wrap_args.font)) \div 2

-----------------------------------------------------------------------------
(* Floating point                                                          *)
(* A bbox coordinate is a Python float once it comes from a normalised box *)
(* or from the mouse.  A float is modelled as an integer count of          *)
(* 1/FxScale pixels that has at most FloatBits significant bits; every     *)
(* arithmetic operation rounds to nearest, ties to even, as IEEE 754 does  *)
(* with its 53 bits.  Integers of the model stay below 2^FloatBits pixels, *)
(* so that, as in Python, every int converts to a float exactly.           *)

FloatBits == 7      \* significant bits of a float
FxBits == 4         \* binary digits after the point of the finest float modelled

RECURSIVE Pow2(_)
Pow2(n) == IF n <= 0 THEN 1 ELSE 2 * Pow2(n - 1)

FxScale == Pow2(FxBits)

\* float(n) of an int n, in pixels
Px(n) == n * FxScale

RECURSIVE floor_log2(_)
floor_log2(m) == IF m < 2 THEN 0 ELSE 1 + floor_log2(m \div 2)

\* the float nearest to the exact value v
float_round(v) ==
    LET mag == Abs(v)
    IN  IF mag < Pow2(FloatBits) THEN v
        ELSE LET ulp == Pow2(floor_log2(mag) - FloatBits + 1)
                 q == mag \div ulp
                 r == mag % ulp
                 up == 2 * r > ulp \/ (2 * r = ulp /\ q % 2 = 1)
                 m == (IF up THEN q + 1 ELSE q) * ulp
             IN  IF v < 0 THEN -m ELSE m

float_add(x, y) == float_round(x + y)
float_sub(x, y) == float_round(x - y)

\* x / 2.0: exact, the floats of the model being even where they are halved
float_half(x) == x \div 2

\* int(x): truncation towards zero, in pixels
float_int(x) == IF x >= 0 THEN x \div FxScale ELSE -((-x) \div FxScale)

-----------------------------------------------------------------------------
(* ImageProcessor._adjust_block_bbox_for_text_fit                          *)
(* (src/image_processor.py:124-197)                                        *)

min_dim_after_adjust == 10

\* mutant: the required dimensions lack the padding of lines 178-179
bbox_after_wrap_without_padding(bbox, text_padding, current_bbox_width, current_bbox_height, horizontal, wrapped) ==
    LET needed_content_width_unpadded == IF horizontal THEN wrapped[4] ELSE wrapped[2]
        needed_content_height_unpadded == IF horizontal THEN wrapped[2] ELSE wrapped[4]
        required_bbox_width == needed_content_width_unpadded
        required_bbox_height == needed_content_height_unpadded
        expand_w == Px(required_bbox_width) > current_bbox_width
        expand_h == Px(required_bbox_height) > current_bbox_height
        center_x == float_half(float_add(bbox[1], bbox[3]))
        center_y == float_half(float_add(bbox[2], bbox[4]))
        final_bbox_width ==
            Max2(Max2(current_bbox_width, Px(required_bbox_width)), Px(min_dim_after_adjust))
        final_bbox_height ==
            Max2(Max2(current_bbox_height, Px(required_bbox_height)), Px(min_dim_after_adjust))
    IN  IF needed_content_width_unpadded <= 0 /\ needed_content_height_unpadded <= 0 THEN bbox
        ELSE IF expand_w \/ expand_h
             THEN <<float_sub(center_x, float_half(final_bbox_width)),
                    float_sub(center_y, float_half(final_bbox_height)),
                    float_add(center_x, float_half(final_bbox_width)),
                    float_add(center_y, float_half(final_bbox_height))>>
             ELSE bbox

\* mutant: the bbox grows to the right and downwards from its top left corner
bbox_after_wrap_anchored_top_left(bbox, text_padding, current_bbox_width, current_bbox_height, horizontal, wrapped) ==
    LET needed_content_width_unpadded == IF horizontal THEN wrapped[4] ELSE wrapped[2]
        needed_content_height_unpadded == IF horizontal THEN wrapped[2] ELSE wrapped[4]
        required_bbox_width == needed_content_width_unpadded + 2 * text_padding
        required_bbox_height == needed_content_height_unpadded + 2 * text_padding
        expand_w == Px(required_bbox_width) > current_bbox_width
        expand_h == Px(required_bbox_height) > current_bbox_height
        center_x == float_half(float_add(bbox[1], bbox[3]))
        center_y == float_half(float_add(bbox[2], bbox[4]))
        final_bbox_width ==
            Max2(Max2(current_bbox_width, Px(required_bbox_width)), Px(min_dim_after_adjust))
        final_bbox_height ==
            Max2(Max2(current_bbox_height, Px(required_bbox_height)), Px(min_dim_after_adjust))
    IN  IF needed_content_width_unpadded <= 0 /\ needed_content_height_unpadded <= 0 THEN bbox
        ELSE IF expand_w \/ expand_h
             THEN <<bbox[1], bbox[2],
                    float_add(bbox[1], final_bbox_width),
                    float_add(bbox[2], final_bbox_height)>>
             ELSE bbox

\* lines 174-197: the bbox once the text has been wrapped; wrapped is the
\* tuple wrap_text_pil returned
bbox_after_wrap(bbox, text_padding, current_bbox_width, current_bbox_height, horizontal, wrapped) ==
    LET needed_content_width_unpadded == IF horizontal THEN wrapped[4] ELSE wrapped[2]
        needed_content_height_unpadded == IF horizontal THEN wrapped[2] ELSE wrapped[4]
        required_bbox_width == needed_content_width_unpadded + 2 * text_padding
        required_bbox_height == needed_content_height_unpadded + 2 * text_padding
        expand_w == Px(required_bbox_width) > current_bbox_width
        expand_h == Px(required_bbox_height) > current_bbox_height
        center_x == float_half(float_add(bbox[1], bbox[3]))
        center_y == float_half(float_add(bbox[2], bbox[4]))
        final_bbox_width ==
            Max2(Max2(current_bbox_width, Px(required_bbox_width)), Px(min_dim_after_adjust))
        final_bbox_height ==
            Max2(Max2(current_bbox_height, Px(required_bbox_height)), Px(min_dim_after_adjust))
    IN  IF needed_content_width_unpadded <= 0 /\ needed_content_height_unpadded <= 0 THEN bbox
        ELSE IF expand_w \/ expand_h
             THEN <<float_sub(center_x, float_half(final_bbox_width)),
                    float_sub(center_y, float_half(final_bbox_height)),
                    float_add(center_x, float_half(final_bbox_width)),
                    float_add(center_y, float_half(final_bbox_height))>>
             ELSE bbox

\* the value of block.bbox after the call
adjust_block_bbox_for_text_fit(pillow, block, pil_font_for_calc, cfg) ==
    LET bbox == block.bbox
        text_padding == cfg.text_padding
        current_bbox_width == float_sub(bbox[3], bbox[1])
        current_bbox_height == float_sub(bbox[4], bbox[2])
        max_content_width_for_wrapping == float_sub(current_bbox_width, Px(2 * text_padding))
        max_content_height_for_wrapping == float_sub(current_bbox_height, Px(2 * text_padding))
        horizontal == block.orientation = "horizontal"
        \* the arguments of the call of wrap_text_pil, lines 158-164 and 168-174
        wrap_call ==
            IF horizontal
            THEN [text |-> block.translated_text, font |-> pil_font_for_calc, draw |-> TRUE,
                  max_dim |-> float_int(max_content_width_for_wrapping),
                  orientation |-> "horizontal",
                  char_spacing_px |-> cfg.h_text_char_spacing_px,
                  line_or_col_spacing_px |-> cfg.h_text_line_spacing_px]
            ELSE [text |-> block.translated_text, font |-> pil_font_for_calc, draw |-> TRUE,
                  max_dim |-> float_int(max_content_height_for_wrapping),
                  orientation |-> "vertical",
                  char_spacing_px |-> cfg.v_text_char_spacing_px,
                  line_or_col_spacing_px |-> cfg.v_text_column_spacing_px]
    IN  IF ~ cfg.auto_adjust_bbox_to_fit_text THEN bbox
        ELSE IF block.translated_text = <<>> \/ Strip(block.translated_text) = <<>>
                \/ ~ pil_font_for_calc.loaded \/ ~ pillow THEN bbox
        ELSE IF current_bbox_width <= 0 \/ current_bbox_height <= 0 THEN bbox
        ELSE IF max_content_width_for_wrapping <= 0 \/ max_content_height_for_wrapping <= 0 THEN bbox
        ELSE CHOOSE new_bbox \in
                 {bbox_after_wrap(bbox, text_padding, current_bbox_width, current_bbox_height,
                                  horizontal, wrapped) :
                      wrapped \in {wrap_text_pil(pillow, a) : a \in {wrap_call}}} : TRUE

-----------------------------------------------------------------------------
(* Inputs of the auto-fit                                                  *)

MaxFitCalls == 2    \* calls of the method on one block

\* a coordinate given in quarter pixels
Quarter(n) == n * (FxScale \div 4)

\* <<x0 or y0, x1 or y1>> in quarter pixels:
\*   16 .. 19 and 0 .. 13 px     integer coordinates, as OCR delivers them
\*   16.25 .. 21.5 px            fractional, as a normalised box scaled to the
\*                               image delivers them
\*   2.25 .. 16 px               fractional, the sum of the two needs rounding
\*   16 .. 18.25 px              less than one pixel wider than twice the padding 1
FitExtents == {<<64, 76>>, <<0, 52>>, <<65, 86>>, <<9, 64>>, <<64, 73>>}

FitBoxes ==
    {<<Quarter(h[1]), Quarter(v[1]), Quarter(h[2]), Quarter(v[2])>> : h \in FitExtents, v \in FitExtents}

\* the options of section [UI] read at lines 125-132
FitConfigs ==
    {[auto_adjust_bbox_to_fit_text |-> TRUE, text_padding |-> 1,
      h_text_char_spacing_px |-> 0, h_text_line_spacing_px |-> 0,
      v_text_char_spacing_px |-> 0, v_text_column_spacing_px |-> 0],
     [auto_adjust_bbox_to_fit_text |-> TRUE, text_padding |-> 2,
      h_text_char_spacing_px |-> 1, h_text_line_spacing_px |-> 1,
      v_text_char_spacing_px |-> -1, v_text_column_spacing_px |-> 0],
     [auto_adjust_bbox_to_fit_text |-> TRUE, text_padding |-> 1,
      h_text_char_spacing_px |-> -1, h_text_line_spacing_px |-> 0,
      v_text_char_spacing_px |-> 1, v_text_column_spacing_px |-> 1],
     [auto_adjust_bbox_to_fit_text |-> FALSE, text_padding |-> 1,
      h_text_char_spacing_px |-> 0, h_text_line_spacing_px |-> 0,
      v_text_char_spacing_px |-> 0, v_text_column_spacing_px |-> 0]}

FitFonts == {SmallFont, BitmapFont, NoFont}

\* the worked example: every character 15 px wide, line height 21 + 3 = 24 px
ExampleAlphabet == {"A", "B", "C", "D", "E", "F", "G", "H"}

ExampleFont ==
    [loaded |-> TRUE, has_size |-> TRUE, size |-> 20,
     has_getbbox |-> TRUE, bbox_top |-> 0, bbox_bottom |-> 21,
     has_getmask |-> TRUE, mask_h |-> 21, metrics_raise |-> FALSE,
     has_getlength |-> TRUE, m_len |-> 15 * SubPx,
     adv |-> [ch \in ExampleAlphabet |-> 15 * SubPx]]

ExampleBlock ==
    [translated_text |-> <<"A", "B", "C", "D", "E", "F", "G", "H">>,
     bbox |-> <<Px(0), Px(0), Px(60), Px(40)>>, orientation |-> "horizontal"]

ExampleConfig ==
    [auto_adjust_bbox_to_fit_text |-> TRUE, text_padding |-> 2,
     h_text_char_spacing_px |-> 0, h_text_line_spacing_px |-> 0,
     v_text_char_spacing_px |-> 0, v_text_column_spacing_px |-> 0]

-----------------------------------------------------------------------------
(* The auto-fit as a state machine: calls of the method on one block       *)

FitInit ==
    /\ MergeIdle
    /\ WrapIdle
    /\ EditIdle
    /\ RenderIdle
    /\ LineHeightIdle
    /\ SentenceIdle
    /\ WorkerIdle
    /\ TranslateIdle
    /\ \/ /\ fit_block \in [translated_text : WrapTexts, bbox : FitBoxes,
                            orientation : {"horizontal", "vertical_rtl"}]
          /\ fit_font \in FitFonts
          /\ fit_config \in FitConfigs
       \/ /\ fit_block = ExampleBlock
          /\ fit_font = ExampleFont
          /\ fit_config = ExampleConfig
    /\ fit_history = <<fit_block.bbox>>

\* lines 124-197: one call
AutoFit ==
    /\ fit_history # <<>>
    /\ Len(fit_history) <= MaxFitCalls
    /\ LET new_bbox == adjust_block_bbox_for_text_fit(PILLOW_AVAILABLE, fit_block, fit_font, fit_config)
       IN  /\ fit_block' = [fit_block EXCEPT !.bbox = new_bbox]
           /\ fit_history' = Append(fit_history, new_bbox)
    /\ UNCHANGED <<fit_font, fit_config, outsideFit>>

FitNext == AutoFit

SpecFit == FitInit /\ [][FitNext]_vars

-----------------------------------------------------------------------------
(* Properties of the auto-fit                                              *)

\* exact width and height of a bbox, in 1/FxScale pixels
BoxWidth(b) == b[3] - b[1]
BoxHeight(b) == b[4] - b[2]

\* the method has been called k times or more
FitCalled(k) == Len(fit_history) >= k + 1

IsExample ==
    /\ fit_font = ExampleFont
    /\ fit_config = ExampleConfig
    /\ fit_block.translated_text = ExampleBlock.translated_text
    /\ fit_history[1] = ExampleBlock.bbox

\* C12: with every character 15 px wide, line height 24 px, padding 2 and
\* bbox [0,0,60,40], horizontal wrapping of 'ABCDEFGH' yields the segments
\* 'ABC', 'DEF', 'GH' with achieved height 72, and auto-fit then grows the
\* bbox height to at least 76 while leaving the width at 60.
C12_ExampleWrapsAndGrows ==
    (IsExample /\ FitCalled(1)) =>
        LET wrapped == wrap_text_pil(PILLOW_AVAILABLE,
                           [text |-> fit_block.translated_text, font |-> fit_font, draw |-> TRUE,
                            max_dim |-> 60 - 2 * fit_config.text_padding,
                            orientation |-> "horizontal",
                            char_spacing_px |-> 0, line_or_col_spacing_px |-> 0])
        IN  /\ wrapped[1] = <<<<"A", "B", "C">>, <<"D", "E", "F">>, <<"G", "H">>>>
            /\ wrapped[2] = 72
            /\ wrapped[3] = 24
            /\ BoxHeight(fit_history[2]) >= Px(76)
            /\ BoxWidth(fit_history[2]) = Px(60)

\* the example after its first auto-fit: 76 px high about the same centre
C12_Witness ==
    /\ IsExample /\ FitCalled(1)
    /\ fit_history[2] = <<Px(0), Px(-18), Px(60), Px(58)>>

\* C13: auto-fit is idempotent: a second application with text, font and
\* style unchanged leaves the bbox exactly as the first application left it,
\* including when the first call enlarged the axis that wrapping is
\* constrained by.
C13_AutoFitIdempotent ==
    FitCalled(2) => fit_history[3] = fit_history[2]

\* every coordinate is a whole number of pixels
IsIntegerBox(b) == \A i \in 1..4 : b[i] % FxScale = 0

\* the required width and height of call k, in 1/FxScale pixels: the extent
\* of the text wrapped in the bbox less its padding, plus 2 x padding
RequiredDims(k) ==
    LET bbox == fit_history[k]
        horizontal == fit_block.orientation = "horizontal"
        budget == (IF horizontal THEN BoxWidth(bbox) ELSE BoxHeight(bbox))
                      - Px(2 * fit_config.text_padding)
        call == [text |-> fit_block.translated_text, font |-> fit_font, draw |-> TRUE,
                 max_dim |-> float_int(budget),
                 orientation |-> IF horizontal THEN "horizontal" ELSE "vertical",
                 char_spacing_px |-> IF horizontal THEN fit_config.h_text_char_spacing_px
                                     ELSE fit_config.v_text_char_spacing_px,
                 line_or_col_spacing_px |-> IF horizontal THEN fit_config.h_text_line_spacing_px
                                            ELSE fit_config.v_text_column_spacing_px]
    IN  CHOOSE d \in {<<Px((IF horizontal THEN wrapped[4] ELSE wrapped[2]) + 2 * fit_config.text_padding),
                        Px((IF horizontal THEN wrapped[2] ELSE wrapped[4]) + 2 * fit_config.text_padding)>> :
                          wrapped \in {wrap_text_pil(PILLOW_AVAILABLE, a) : a \in {call}}} : TRUE

\* call k grew the bbox about its centre to the larger of the current and
\* the required dimension, never below 10, or left it untouched
GrowsAboutCentre(k) ==
    LET old == fit_history[k]
        new == fit_history[k + 1]
    IN  \A required \in {RequiredDims(k)} :
            /\ new # old =>
                   /\ new[1] + new[3] = old[1] + old[3]
                   /\ new[2] + new[4] = old[2] + old[4]
                   /\ BoxWidth(new) = Max2(Max2(BoxWidth(old), required[1]), Px(min_dim_after_adjust))
                   /\ BoxHeight(new) = Max2(Max2(BoxHeight(old), required[2]), Px(min_dim_after_adjust))
            /\ BoxWidth(new) >= BoxWidth(old)
            /\ BoxHeight(new) >= BoxHeight(old)
            /\ (required[1] <= BoxWidth(old) /\ required[2] <= BoxHeight(old)) => new = old

-----------------------------------------------------------------------------
(* The interactive editor: InteractiveLabel and MainWindow                 *)
(* (src/ui/main_window.py), fed with the blocks that                       *)
(* ImageProcessor.process_image creates (src/image_processor.py:464-517).  *)
(* A block keeps the fields the gestures write: id, bbox and angle.  The   *)
(* bbox is in 1/FxScale pixels and the angle in 1/FxScale degrees, both    *)
(* floats.  Hit testing is geometry the model leaves open: a press names   *)
(* what it hit, a move names where the mouse went.                         *)

MaxBlocks == 2          \* intermediate blocks of one translation
MaxTranslations == 2    \* translations finished
MaxAdds == 1            \* blocks added from the context menu
MaxPresses == 1         \* mouse presses

min_bbox_dim_orig == 10
default_width_orig == 150
default_height_orig == 50

\* x % 360.0 on Python floats: the remainder has the sign of x (fmod) and
\* 360.0 is added, in floating point, to a negative one
float_mod_360(x) ==
    LET mod == IF x >= 0 THEN x % Px(360) ELSE -((-x) % Px(360))
    IN  IF mod < 0 THEN float_add(mod, Px(360)) ELSE mod

\* the font get_pil_font returns and the [UI] options of the run
EditFont == BitmapFont

EditConfig ==
    [auto_adjust_bbox_to_fit_text |-> TRUE, text_padding |-> 1,
     h_text_char_spacing_px |-> 0, h_text_line_spacing_px |-> 0,
     v_text_char_spacing_px |-> 0, v_text_column_spacing_px |-> 0]

\* intermediate blocks: a 4 x 12 box whose text fits, a 4 x 4 box that the
\* text outgrows, and a box of no width
EditItems ==
    {[translated_text |-> <<"i">>, bbox |-> <<Px(2), Px(2), Px(6), Px(14)>>,
      orientation |-> "horizontal"],
     [translated_text |-> <<"W">>, bbox |-> <<Px(4), Px(4), Px(8), Px(8)>>,
      orientation |-> "horizontal"],
     [translated_text |-> <<"i">>, bbox |-> <<Px(6), Px(2), Px(6), Px(9)>>,
      orientation |-> "vertical_rtl"]}

EditItemLists == UNION {[1..n -> EditItems] : n \in 0..MaxBlocks}

\* "gemini_multimodal_{item_idx}" (line 341) and "ocr_trans_{i}" (line 446)
Pipelines == {"gemini_multimodal", "ocr_trans"}

\* lines 465-516: the ProcessedBlock made from intermediate block idx, <<>>
\* when the block is skipped
final_block(pillow, pipeline, item, idx) ==
    LET pixel_bbox == item.bbox
        current_block ==
            [id |-> <<pipeline, idx>>, translated_text |-> item.translated_text,
             bbox |-> pixel_bbox,
             orientation |-> IF pipeline = "ocr_trans" THEN "horizontal" ELSE item.orientation]
    IN  IF ~ (pixel_bbox[1] < pixel_bbox[3] /\ pixel_bbox[2] < pixel_bbox[4]) THEN <<>>
        ELSE IF EditConfig.auto_adjust_bbox_to_fit_text /\ pillow /\ EditFont.loaded
             THEN [id |-> current_block.id,
                   bbox |-> adjust_block_bbox_for_text_fit(pillow, current_block, EditFont, EditConfig),
                   angle |-> 0]
             ELSE [id |-> current_block.id, bbox |-> pixel_bbox, angle |-> 0]

\* lines 464-517: the list process_image returns
RECURSIVE final_processed_blocks(_, _, _, _)
final_processed_blocks(pillow, pipeline, items, i) ==
    IF i > Len(items) THEN <<>>
    ELSE CHOOSE blocks \in
             {(IF b = <<>> THEN <<>> ELSE <<b>>) \o final_processed_blocks(pillow, pipeline, items, i + 1) :
                  b \in {final_block(pillow, pipeline, items[i], i - 1)}} : TRUE

\* what the mouse does in the model
DragDeltas == {<<Px(4), 0>>, <<Px(-2), Px(3)>>}
ResizePoints == {<<Px(5), Px(7)>>}
RotateDeltas == {-1, Px(90)}         \* delta_angle_deg, in (-360, 360)
SpinValues == {Px(-90), Px(360)}  \* block_angle_spin: range -360..360
AddCentres == {<<Px(80), Px(30)>>}   \* center_x_orig, center_y_orig

RemoveAt(seq, j) == [i \in 1..(Len(seq) - 1) |-> IF i < j THEN seq[i] ELSE seq[i + 1]]

\* the history of ids, kept beside the program's state
AssignIds(new_ids) ==
    /\ ids_assigned' = ids_assigned \cup new_ids
    /\ ids_reused' = ids_reused \cup (new_ids \cap ids_assigned)

EditInit ==
    /\ MergeIdle
    /\ WrapIdle
    /\ FitIdle
    /\ EditIdle
    /\ RenderIdle
    /\ LineHeightIdle
    /\ SentenceIdle
    /\ WorkerIdle
    /\ TranslateIdle

\* MainWindow._on_load_image (893-915) with InteractiveLabel.clear_all
LoadImage ==
    /\ ~ translation_worker
    /\ background_pixmap' = TRUE
    /\ processed_blocks' = <<>>
    /\ selected_block' = 0
    /\ UNCHANGED <<translation_worker, gestureVars, idVars, edit_counts, outsideEdit>>

\* MainWindow._on_translate_clicked (1009-1027)
TranslateClicked ==
    /\ background_pixmap
    /\ ~ translation_worker
    /\ edit_counts.translations < MaxTranslations
    /\ processed_blocks' = <<>>
    /\ selected_block' = 0
    /\ translation_worker' = TRUE
    /\ UNCHANGED <<background_pixmap, gestureVars, idVars, edit_counts, outsideEdit>>

\* set_processed_blocks without the test of lines 219-220
selection_kept_by_set_processed_blocks(selected) == selected

\* set_processed_blocks, lines 219-220: the selection once the list has been
\* replaced.  ProcessedBlock defines no __eq__, so "not in" compares
\* identities, and the blocks of the new list are new objects (made at
\* image_processor.py:501-516): a selected block is never among them.
selection_after_set_processed_blocks(selected) == 0

\* TranslationWorker.run with process_image, then
\* MainWindow._on_translation_finished (1031-1061) and set_processed_blocks
TranslationFinished ==
    /\ translation_worker
    /\ \E pipeline \in Pipelines, items \in EditItemLists :
           LET blocks == final_processed_blocks(PILLOW_AVAILABLE, pipeline, items, 1)
               selected == selection_after_set_processed_blocks(selected_block)
           IN  /\ processed_blocks' = blocks
               /\ selected_block' = IF blocks # <<>> /\ selected = 0 THEN 1 ELSE selected
               /\ AssignIds({blocks[i].id : i \in 1..Len(blocks)})
    /\ translation_worker' = FALSE
    /\ edit_counts' = [edit_counts EXCEPT !.translations = @ + 1]
    /\ UNCHANGED <<background_pixmap, gestureVars, time_ns, outsideEdit>>

\* contextMenuEvent away from every block, "new text box":
\* _add_new_text_block (624-653)
AddNewTextBlock ==
    /\ background_pixmap
    /\ time_ns < MaxAdds
    /\ \E centre \in AddCentres :
           LET new_bbox == <<float_sub(centre[1], float_half(Px(default_width_orig))),
                             float_sub(centre[2], float_half(Px(default_height_orig))),
                             float_add(centre[1], float_half(Px(default_width_orig))),
                             float_add(centre[2], float_half(Px(default_height_orig)))>>
               new_id == <<"block", time_ns + 1, Len(processed_blocks)>>
           IN  /\ processed_blocks' = Append(processed_blocks, [id |-> new_id, bbox |-> new_bbox, angle |-> 0])
               /\ selected_block' = Len(processed_blocks) + 1
               /\ AssignIds({new_id})
    /\ time_ns' = time_ns + 1
    /\ UNCHANGED <<background_pixmap, translation_worker, gestureVars, edit_counts, outsideEdit>>

\* contextMenuEvent on a block, "delete" (580-609)
DeleteBlock ==
    /\ \E j \in 1..Len(processed_blocks) :
           processed_blocks' = RemoveAt(processed_blocks, j)
    /\ selected_block' = 0
    /\ UNCHANGED <<background_pixmap, translation_worker, gestureVars, idVars, edit_counts, outsideEdit>>

\* mousePressEvent (403-452) on the rotation handle of the selected block
PressRotationHandle ==
    /\ edit_counts.presses < MaxPresses
    /\ selected_block # 0
    /\ rotating_block' = TRUE
    /\ resizing_block' = FALSE
    /\ dragging_block' = FALSE
    /\ initial_mouse_pos_on_drag' = "pos"
    /\ initial_angle_on_rotate' = processed_blocks[selected_block].angle
    /\ edit_counts' = [edit_counts EXCEPT !.presses = @ + 1]
    /\ UNCHANGED <<background_pixmap, translation_worker, processed_blocks, selected_block,
                   resize_corner, initial_block_bbox_on_drag, resize_anchor_opposite_corner_orig,
                   idVars, outsideEdit>>

\* mousePressEvent on corner handle i of the selected block
PressCornerHandle ==
    /\ edit_counts.presses < MaxPresses
    /\ selected_block # 0
    /\ \E i \in 0..3 :
           LET orig_bbox == processed_blocks[selected_block].bbox
               corners_orig_bbox_coords ==
                   <<<<orig_bbox[1], orig_bbox[2]>>, <<orig_bbox[3], orig_bbox[2]>>,
                     <<orig_bbox[3], orig_bbox[4]>>, <<orig_bbox[1], orig_bbox[4]>>>>
           IN  /\ resize_corner' = i
               /\ initial_block_bbox_on_drag' = orig_bbox
               /\ resize_anchor_opposite_corner_orig' = corners_orig_bbox_coords[((i + 2) % 4) + 1]
    /\ resizing_block' = TRUE
    /\ rotating_block' = FALSE
    /\ dragging_block' = FALSE
    /\ initial_mouse_pos_on_drag' = "pos"
    /\ edit_counts' = [edit_counts EXCEPT !.presses = @ + 1]
    /\ UNCHANGED <<background_pixmap, translation_worker, processed_blocks, selected_block,
                   initial_angle_on_rotate, idVars, outsideEdit>>

\* mousePressEvent, left button, on block j and on no handle
PressBlock ==
    /\ edit_counts.presses < MaxPresses
    /\ \E j \in 1..Len(processed_blocks) :
           /\ selected_block' = j
           /\ initial_block_bbox_on_drag' = processed_blocks[j].bbox
    /\ dragging_block' = TRUE
    /\ resizing_block' = FALSE
    /\ rotating_block' = FALSE
    /\ initial_mouse_pos_on_drag' = "pos"
    /\ edit_counts' = [edit_counts EXCEPT !.presses = @ + 1]
    /\ UNCHANGED <<background_pixmap, translation_worker, processed_blocks, resize_corner,
                   resize_anchor_opposite_corner_orig, initial_angle_on_rotate, idVars, outsideEdit>>

\* mousePressEvent, left button, on nothing
PressNothing ==
    /\ edit_counts.presses < MaxPresses
    /\ selected_block' = 0
    /\ dragging_block' = FALSE
    /\ edit_counts' = [edit_counts EXCEPT !.presses = @ + 1]
    /\ UNCHANGED <<background_pixmap, translation_worker, processed_blocks, resizing_block,
                   rotating_block, resize_corner, initial_mouse_pos_on_drag,
                   initial_block_bbox_on_drag, resize_anchor_opposite_corner_orig,
                   initial_angle_on_rotate, idVars, outsideEdit>>

\* the guard of the first branch of mouseMoveEvent (line 456)
drag_under_way ==
    /\ dragging_block
    /\ selected_block # 0
    /\ initial_block_bbox_on_drag # <<>>
    /\ initial_mouse_pos_on_drag # "None"

\* the guard of the second branch (line 467); the rotation centre is set
\* with the flag
rotation_under_way ==
    /\ ~ drag_under_way
    /\ rotating_block
    /\ selected_block # 0
    /\ initial_mouse_pos_on_drag # "None"

\* the guard of the third branch (line 477)
resize_under_way ==
    /\ ~ drag_under_way
    /\ ~ rotation_under_way
    /\ resizing_block
    /\ selected_block # 0
    /\ initial_block_bbox_on_drag # <<>>
    /\ initial_mouse_pos_on_drag # "None"
    /\ resize_anchor_opposite_corner_orig # <<>>

\* lines 498-511: the bbox a resize leaves, the mouse being at current_mouse_orig
resized_bbox(corner, anchor, current_mouse_orig) ==
    LET new_x0 == IF corner \in {0, 3} THEN current_mouse_orig[1] ELSE anchor[1]
        new_x1 == IF corner \in {0, 3} THEN anchor[1] ELSE current_mouse_orig[1]
        new_y0 == IF corner \in {0, 1} THEN current_mouse_orig[2] ELSE anchor[2]
        new_y1 == IF corner \in {0, 1} THEN anchor[2] ELSE current_mouse_orig[2]
        x0 == Min2(new_x0, new_x1)
        x1 == Max2(new_x0, new_x1)
        y0 == Min2(new_y0, new_y1)
        y1 == Max2(new_y0, new_y1)
        narrow == float_sub(x1, x0) < Px(min_bbox_dim_orig)
        low == float_sub(y1, y0) < Px(min_bbox_dim_orig)
        final_x0 == IF narrow /\ corner \in {0, 3} THEN float_sub(x1, Px(min_bbox_dim_orig)) ELSE x0
        final_x1 == IF narrow /\ corner \notin {0, 3} THEN float_add(x0, Px(min_bbox_dim_orig)) ELSE x1
        final_y0 == IF low /\ corner \in {0, 1} THEN float_sub(y1, Px(min_bbox_dim_orig)) ELSE y0
        final_y1 == IF low /\ corner \notin {0, 1} THEN float_add(y0, Px(min_bbox_dim_orig)) ELSE y1
    IN  <<final_x0, final_y0, final_x1, final_y1>>

\* mouseMoveEvent while dragging (456-466)
MouseMoveDrag ==
    /\ drag_under_way
    /\ \E delta \in DragDeltas :
           LET init == initial_block_bbox_on_drag
               new_bbox == <<float_add(init[1], delta[1]), float_add(init[2], delta[2]),
                             float_add(init[3], delta[1]), float_add(init[4], delta[2])>>
           IN  processed_blocks' = [processed_blocks EXCEPT ![selected_block].bbox = new_bbox]
    /\ UNCHANGED <<background_pixmap, translation_worker, selected_block, gestureVars, idVars,
                   edit_counts, outsideEdit>>

\* mouseMoveEvent while rotating (467-476)
MouseMoveRotate ==
    /\ rotation_under_way
    /\ \E delta_angle_deg \in RotateDeltas :
           processed_blocks' =
               [processed_blocks EXCEPT ![selected_block].angle =
                    float_mod_360(float_add(initial_angle_on_rotate, delta_angle_deg))]
    /\ UNCHANGED <<background_pixmap, translation_worker, selected_block, gestureVars, idVars,
                   edit_counts, outsideEdit>>

\* mouseMoveEvent while resizing (477-513)
MouseMoveResize ==
    /\ resize_under_way
    /\ \E current_mouse_orig \in ResizePoints :
           processed_blocks' =
               [processed_blocks EXCEPT ![selected_block].bbox =
                    resized_bbox(resize_corner, resize_anchor_opposite_corner_orig, current_mouse_orig)]
    /\ UNCHANGED <<background_pixmap, translation_worker, selected_block, gestureVars, idVars,
                   edit_counts, outsideEdit>>

\* mouseReleaseEvent (517-528)
MouseRelease ==
    /\ dragging_block' = FALSE
    /\ resizing_block' = FALSE
    /\ rotating_block' = FALSE
    /\ initial_block_bbox_on_drag' = <<>>
    /\ initial_mouse_pos_on_drag' = "None"
    /\ resize_anchor_opposite_corner_orig' = <<>>
    /\ UNCHANGED <<background_pixmap, translation_worker, processed_blocks, selected_block,
                   resize_corner, initial_angle_on_rotate, idVars, edit_counts, outsideEdit>>

\* MainWindow._on_selected_block_controls_changed (856-863), the angle spin
\* box having been set to value; the font size spin box still holds the
\* size of the block
AngleSpinChanged ==
    /\ selected_block # 0
    /\ \E value \in SpinValues :
           /\ value # processed_blocks[selected_block].angle
           /\ processed_blocks' = [processed_blocks EXCEPT ![selected_block].angle = value]
    /\ UNCHANGED <<background_pixmap, translation_worker, selected_block, gestureVars, idVars,
                   edit_counts, outsideEdit>>

EditNext ==
    \/ LoadImage
    \/ TranslateClicked
    \/ TranslationFinished
    \/ AddNewTextBlock
    \/ DeleteBlock
    \/ PressRotationHandle
    \/ PressCornerHandle
    \/ PressBlock
    \/ PressNothing
    \/ MouseMoveDrag
    \/ MouseMoveRotate
    \/ MouseMoveResize
    \/ MouseRelease
    \/ AngleSpinChanged

SpecEdit == EditInit /\ [][EditNext]_vars

-----------------------------------------------------------------------------
(* Properties of the editor                                                *)

\* the step edits block i: it changes the bbox of a block that stays
EditsBlock(i) ==
    /\ Len(processed_blocks') = Len(processed_blocks)
    /\ processed_blocks'[i].id = processed_blocks[i].id
    /\ processed_blocks'[i].bbox # processed_blocks[i].bbox

\* C15: in every state reached after any edit of a block (move by drag,
\* corner resize, auto-fit-to-text), that block's bbox has width >= 10 and
\* height >= 10.
C15_MinimumSizeAfterEdit ==
    [][\A i \in 1..Len(processed_blocks') :
           EditsBlock(i) =>
               /\ BoxWidth(processed_blocks'[i].bbox) >= Px(min_bbox_dim_orig)
               /\ BoxHeight(processed_blocks'[i].bbox) >= Px(min_bbox_dim_orig)]_vars

\* C16: in every reachable state every block's angle lies in [0, 360),
\* whichever interaction last changed it (rotation-handle drag or the angle
\* spin box).
C16_AngleNormalised ==
    \A i \in 1..Len(processed_blocks) :
        /\ processed_blocks[i].angle >= 0
        /\ processed_blocks[i].angle < Px(360)

\* C17: a block id is never reused: no id value is ever assigned to two
\* different blocks over the program's lifetime (across creation by
\* process_image, creation from the context menu, deletion, and loading or
\* translating another image).
C17_IdNeverReused ==
    ids_reused = {}

\* C30: in every reachable state of InteractiveLabel the selected block is
\* either None or an element of processed_blocks, after any sequence of
\* set_processed_blocks, clear_all, mouse selection, block deletion and
\* new-block creation.  (selected_block is the position of the selected
\* block in processed_blocks, 0 for None.)
C30_SelectedBlockIsShown ==
    selected_block \in 0..Len(processed_blocks)

\* C30, its case: a translation has delivered its blocks, a block was made
\* from the context menu and one was deleted, and a block is selected again
C30_Witness ==
    /\ edit_counts.translations > 0
    /\ time_ns > 0
    /\ Len(processed_blocks) >= 1
    /\ Cardinality(ids_assigned) > Len(processed_blocks)
    /\ selected_block = Len(processed_blocks)

-----------------------------------------------------------------------------
(* _render_single_block_pil_for_preview (utils/utils.py:372-708, the same  *)
(* code as src/utils/utils.py:242-461): the outcome of one call.  An image *)
(* is kept as its size, whether the background rectangle was drawn, the    *)
(* error marker written on it and whether the text was drawn.              *)

NoImage == [kind |-> "None"]

Surface(width, height, background, marker, text) ==
    [kind |-> "image", size |-> <<width, height>>, background |-> background,
     marker |-> marker, text |-> text]

\* the NameError of ImageFont.load_default(): the module binds
\* PIL.ImageFont to the name PILImageFont only (utils.py:11)
RaisedNameError == [kind |-> "raised", exception |-> "NameError"]

\* lines 401-403, 451-452: the background is drawn when its alpha is > 0
background_drawn(style) == style.text_bg_alpha > 0

\* lines 456-470: the extent of the wrapped text, horizontal
horizontal_extent(pillow, block, pil_font, style, max_content_width_for_wrapping) ==
    LET call == [text |-> block.translated_text, font |-> pil_font, draw |-> TRUE,
                 max_dim |-> Max2(1, max_content_width_for_wrapping),
                 orientation |-> "horizontal",
                 char_spacing_px |-> style.h_char_spacing_px,
                 line_or_col_spacing_px |-> style.h_line_spacing_px]
    IN  CHOOSE e \in
            {[segments |-> wrapped[1],
              width |-> wrapped[4] * SubPx,
              height |-> Len(wrapped[1]) * wrapped[3]
                           + Cardinality({k \in 1..Len(wrapped[1]) : wrapped[1][k] = <<>>})
                               * style.h_manual_break_extra_px] :
                 wrapped \in {wrap_text_pil(pillow, a) : a \in {call}}} : TRUE

\* lines 475-496: the extent of the wrapped text, vertical; widths in
\* sub-pixel units
vertical_extent(pillow, block, pil_font, style, max_content_height_for_wrapping) ==
    LET call == [text |-> block.translated_text, font |-> pil_font, draw |-> TRUE,
                 max_dim |-> Max2(1, max_content_height_for_wrapping),
                 orientation |-> "vertical",
                 char_spacing_px |-> style.v_char_spacing_px,
                 line_or_col_spacing_px |-> 0]
        size_or_default == IF pil_font.has_size THEN pil_font.size ELSE block.font_size_pixels
        single_col_visual_width_metric ==
            IF pil_font.has_getlength
            THEN IF pil_font.m_len = 0 THEN size_or_default * SubPx ELSE pil_font.m_len
            ELSE size_or_default * SubPx
    IN  CHOOSE e \in
            {[segments |-> wrapped[1],
              width |-> Len(wrapped[1]) * single_col_visual_width_metric
                          + (Len(wrapped[1]) - 1) * style.v_col_spacing_px * SubPx
                          + Cardinality({k \in 1..(Len(wrapped[1]) - 1) : wrapped[1][k] = <<>>})
                              * style.v_manual_break_extra_px * SubPx,
              height |-> wrapped[4]] :
                 wrapped \in {wrap_text_pil(pillow, a) : a \in {call}}} : TRUE

\* the renderer, were it to return None for every blank text
render_blank_text_as_none(pillow, block, pil_font, style) ==
    LET bbox == block.bbox
        blank == block.translated_text = <<>> \/ Strip(block.translated_text) = <<>>
        target_surface_width == float_int(float_sub(bbox[3], bbox[1]))
        target_surface_height == float_int(float_sub(bbox[4], bbox[2]))
        max_content_width_for_wrapping == target_surface_width - 2 * style.text_padding
        max_content_height_for_wrapping == target_surface_height - 2 * style.text_padding
    IN  IF ~ pillow \/ blank
        THEN NoImage
        ELSE IF ~ pil_font.loaded THEN RaisedNameError
        ELSE IF target_surface_width <= 0 \/ target_surface_height <= 0 THEN RaisedNameError
        ELSE IF max_content_width_for_wrapping <= 0 \/ max_content_height_for_wrapping <= 0
             THEN Surface(target_surface_width, target_surface_height, background_drawn(style), "", FALSE)
        ELSE \* lines 456-708
             CHOOSE outcome \in
                 {IF extent.segments = <<>> \/ extent.width <= 0 \/ extent.height <= 0
                  THEN RaisedNameError
                  ELSE Surface(target_surface_width, target_surface_height,
                               background_drawn(style), "", TRUE) :
                      extent \in
                          {IF block.orientation = "horizontal"
                           THEN horizontal_extent(pillow, block, pil_font, style,
                                                  max_content_width_for_wrapping)
                           ELSE vertical_extent(pillow, block, pil_font, style,
                                                max_content_height_for_wrapping)}} : TRUE

\* lines 372-708.  wrap_text_pil returns at least one segment for a text
\* that is not empty, so the branches for an empty list of segments
\* (lines 470-473, 496-500, 503-519) are never taken and are left out.
render_single_block_pil_for_preview(pillow, block, pil_font, style) ==
    LET bbox == block.bbox
        blank == block.translated_text = <<>> \/ Strip(block.translated_text) = <<>>
        target_surface_width == float_int(float_sub(bbox[3], bbox[1]))
        target_surface_height == float_int(float_sub(bbox[4], bbox[2]))
        max_content_width_for_wrapping == target_surface_width - 2 * style.text_padding
        max_content_height_for_wrapping == target_surface_height - 2 * style.text_padding
    IN  IF ~ pillow \/ blank
        THEN IF pillow /\ bbox # <<>> /\ target_surface_width > 0 /\ target_surface_height > 0
             THEN Surface(target_surface_width, target_surface_height, background_drawn(style), "", FALSE)
             ELSE NoImage
        ELSE IF ~ pil_font.loaded THEN RaisedNameError
        ELSE IF target_surface_width <= 0 \/ target_surface_height <= 0 THEN RaisedNameError
        ELSE IF max_content_width_for_wrapping <= 0 \/ max_content_height_for_wrapping <= 0
             THEN Surface(target_surface_width, target_surface_height, background_drawn(style), "", FALSE)
        ELSE \* lines 456-708
             CHOOSE outcome \in
                 {IF extent.segments = <<>> \/ extent.width <= 0 \/ extent.height <= 0
                  THEN RaisedNameError
                  ELSE Surface(target_surface_width, target_surface_height,
                               background_drawn(style), "", TRUE) :
                      extent \in
                          {IF block.orientation = "horizontal"
                           THEN horizontal_extent(pillow, block, pil_font, style,
                                                  max_content_width_for_wrapping)
                           ELSE vertical_extent(pillow, block, pil_font, style,
                                                max_content_height_for_wrapping)}} : TRUE

-----------------------------------------------------------------------------
(* Inputs of the renderer                                                  *)

\* a text of blanks, beside the blank texts of WrapTexts
RenderTexts == WrapTexts \cup {<<" ">>, <<" ", "\n">>}

\* roomy, of no width, inverted, half a pixel wide, and no larger than its
\* padding
RenderBoxes ==
    {<<Px(0), Px(0), Px(6), Px(12)>>,
     <<Px(3), Px(0), Px(3), Px(5)>>,
     <<Px(5), Px(1), Px(2), Px(9)>>,
     <<Px(1), Px(1), Px(1) + Quarter(2), Px(9)>>,
     <<Px(0), Px(0), Px(2), Px(2)>>}

RenderStyles ==
    {[text_bg_alpha |-> alpha, text_padding |-> 1,
      h_char_spacing_px |-> 0, h_line_spacing_px |-> line_spacing,
      v_char_spacing_px |-> line_spacing, v_col_spacing_px |-> 0,
      h_manual_break_extra_px |-> 0, v_manual_break_extra_px |-> 0] :
         alpha \in {0, 128}, line_spacing \in {0, -3}}

RenderInit ==
    /\ MergeIdle
    /\ WrapIdle
    /\ FitIdle
    /\ EditIdle
    /\ LineHeightIdle
    /\ SentenceIdle
    /\ WorkerIdle
    /\ TranslateIdle
    /\ render_block \in [translated_text : RenderTexts, bbox : RenderBoxes,
                         orientation : {"horizontal", "vertical_rtl"},
                         font_size_pixels : {2}]
    /\ render_font \in {SmallFont, BitmapFont, NoFont}
    /\ render_style \in RenderStyles
    /\ render_result = <<>>

\* one call of the renderer
Render ==
    /\ render_block # <<>>
    /\ render_result = <<>>
    /\ render_result' = render_single_block_pil_for_preview(PILLOW_AVAILABLE, render_block,
                                                            render_font, render_style)
    /\ UNCHANGED <<render_block, render_font, render_style, outsideRender>>

RenderNext == Render

SpecRender == RenderInit /\ [][RenderNext]_vars

-----------------------------------------------------------------------------
(* Properties of the renderer                                              *)

RenderReturned == render_result # <<>>

IsBlank(t) == t = <<>> \/ Strip(t) = <<>>

\* int(x1 - x0) and int(y1 - y0), the size the renderer works with
IntWidth(b) == float_int(float_sub(b[3], b[1]))
IntHeight(b) == float_int(float_sub(b[4], b[2]))

\* C18 as stated: renderBlock returns null (no raster) whenever the block's
\* translated text is blank, i.e. empty or whitespace-only, whatever the bbox
\* and style.
C18_BlankTextGivesNone ==
    (RenderReturned /\ IsBlank(render_block.translated_text)) => render_result = NoImage

\* C18 amended: for a blank text renderBlock returns null only when the
\* integer width or height of the bbox is <= 0; in a bbox of positive size
\* it returns a surface of the size of the bbox without any text,
\* transparent or filled with the background colour.
C18_BlankTextGivesNoneOrEmptySurface ==
    (RenderReturned /\ IsBlank(render_block.translated_text)) =>
        IF IntWidth(render_block.bbox) > 0 /\ IntHeight(render_block.bbox) > 0
        THEN render_result =
                 Surface(IntWidth(render_block.bbox), IntHeight(render_block.bbox),
                         render_style.text_bg_alpha > 0, "", FALSE)
        ELSE render_result = NoImage

\* a whitespace-only text in a roomy bbox: a surface filled with the
\* background colour
C18_Witness ==
    /\ RenderReturned
    /\ render_block.translated_text # <<>>
    /\ IsBlank(render_block.translated_text)
    /\ render_result.kind = "image"
    /\ render_result.size = <<6, 12>>
    /\ render_result.background
    /\ ~ render_result.text

\* C19: for a block with non-blank text whose bbox width or height is <= 0,
\* renderBlock returns an error-marker image and does not raise: no
\* exception escapes the render call.
C19_DegenerateBoxGivesMarker ==
    (/\ RenderReturned
     /\ ~ IsBlank(render_block.translated_text)
     /\ (BoxWidth(render_block.bbox) <= 0 \/ BoxHeight(render_block.bbox) <= 0)) =>
        /\ render_result.kind = "image"
        /\ render_result.marker # ""

-----------------------------------------------------------------------------
(* The auto-fit against the renderer                                       *)

\* h_manual_break_extra_spacing_px / v_manual_break_extra_spacing_px of
\* section [UI] (reload_style_configs, main_window.py:108-109), which only the renderer reads
ManualBreakExtras == {0, 2}

\* the style the renderer is called with under the configuration of the
\* auto-fit (main_window.py:165-178)
RenderStyleOfFit(extra) ==
    [text_bg_alpha |-> 0, text_padding |-> fit_config.text_padding,
     h_char_spacing_px |-> fit_config.h_text_char_spacing_px,
     h_line_spacing_px |-> fit_config.h_text_line_spacing_px,
     v_char_spacing_px |-> fit_config.v_text_char_spacing_px,
     v_col_spacing_px |-> fit_config.v_text_column_spacing_px,
     h_manual_break_extra_px |-> extra, v_manual_break_extra_px |-> extra]

\* the first call of the auto-fit got as far as wrapping the text: the
\* option is on, the text is not blank, the font is loaded and the bbox
\* less its padding has a positive area (image_processor.py:125-143)
AutoFitRan ==
    /\ FitCalled(1)
    /\ fit_config.auto_adjust_bbox_to_fit_text
    /\ Strip(fit_block.translated_text) # <<>>
    /\ PILLOW_AVAILABLE /\ fit_font.loaded
    /\ float_sub(float_sub(fit_history[1][3], fit_history[1][1]), Px(2 * fit_config.text_padding)) > 0
    /\ float_sub(float_sub(fit_history[1][4], fit_history[1][2]), Px(2 * fit_config.text_padding)) > 0

\* the extents the renderer computes (utils.py:456-500) for the block as the
\* first auto-fit left it: [drawn, width, height], in 1/FxScale pixels;
\* drawn is FALSE when the renderer does not get as far as wrapping
RenderExtentAfterFit(extra) ==
    LET bbox == fit_history[2]
        style == RenderStyleOfFit(extra)
        block == [translated_text |-> fit_block.translated_text, bbox |-> bbox,
                  orientation |-> fit_block.orientation,
                  font_size_pixels |-> IF fit_font.has_size THEN fit_font.size
                                       ELSE default_font_size_16]
        target_surface_width == float_int(float_sub(bbox[3], bbox[1]))
        target_surface_height == float_int(float_sub(bbox[4], bbox[2]))
        max_content_width_for_wrapping == target_surface_width - 2 * style.text_padding
        max_content_height_for_wrapping == target_surface_height - 2 * style.text_padding
    IN  IF max_content_width_for_wrapping <= 0 \/ max_content_height_for_wrapping <= 0
        THEN [drawn |-> FALSE, width |-> 0, height |-> 0]
        ELSE CHOOSE r \in
                 {[drawn |-> TRUE, width |-> e.width * (FxScale \div SubPx), height |-> Px(e.height)] :
                      e \in {IF block.orientation = "horizontal"
                              THEN horizontal_extent(PILLOW_AVAILABLE, block, fit_font, style,
                                                     max_content_width_for_wrapping)
                              ELSE vertical_extent(PILLOW_AVAILABLE, block, fit_font, style,
                                                   max_content_height_for_wrapping)}} : TRUE

\* the extents of the renderer plus 2 x padding are within the bbox
ExtentFits(extra) ==
    \A e \in {RenderExtentAfterFit(extra)} :
        e.drawn =>
            /\ e.width + Px(2 * fit_config.text_padding) <= BoxWidth(fit_history[2])
            /\ e.height + Px(2 * fit_config.text_padding) <= BoxHeight(fit_history[2])

\* C24: after auto-fit has run on a block with non-blank text and positive
\* content area, the text extents the renderer computes for the same block
\* and style (manual-break extra spacing and column spacing included) plus
\* 2 x padding do not exceed the bbox width and height.
C24_FitsAfterAutoFit ==
    AutoFitRan => \A extra \in ManualBreakExtras : ExtentFits(extra)

\* the height of one character cell of a column, spacing included
\* (font_utils.py:287)
CellHeight ==
    get_font_line_height(PILLOW_AVAILABLE, fit_font,
                         default_font_size_of(PILLOW_AVAILABLE, fit_font),
                         fit_config.v_text_char_spacing_px)

\* the auto-fit ran on a vertical block whose cell is higher than the bbox
\* less its padding
VerticalOversized ==
    /\ AutoFitRan
    /\ fit_block.orientation # "horizontal"
    /\ Px(CellHeight) > float_sub(float_sub(fit_history[1][4], fit_history[1][2]),
                                  Px(2 * fit_config.text_padding))

\* the columns the first auto-fit wrapped the text into (image_processor.py:168-174)
ColumnsOfFit ==
    LET content == float_sub(float_sub(fit_history[1][4], fit_history[1][2]),
                             Px(2 * fit_config.text_padding))
        call == [text |-> fit_block.translated_text, font |-> fit_font, draw |-> TRUE,
                 max_dim |-> float_int(content), orientation |-> "vertical",
                 char_spacing_px |-> fit_config.v_text_char_spacing_px,
                 line_or_col_spacing_px |-> fit_config.v_text_column_spacing_px]
    IN  CHOOSE cols \in {wrap_text_pil(PILLOW_AVAILABLE, a)[1] : a \in {call}} : TRUE

\* the width of n columns side by side with the column spacing between
\* them, in 1/FxScale pixels: each column is as wide as an "M"
\* (font_utils.py:290-295, utils.py:483-492)
ColumnsWidth(n) ==
    LET size_or_default == IF fit_font.has_size THEN fit_font.size ELSE default_font_size_16
        col_width == IF fit_font.has_getlength /\ fit_font.m_len # 0 THEN fit_font.m_len
                     ELSE size_or_default * SubPx
    IN  (n * col_width + (n - 1) * fit_config.v_text_column_spacing_px * SubPx)
            * (FxScale \div SubPx)

\* the first auto-fit made the bbox at least one cell and the padding high
GrownToCellHeight ==
    BoxHeight(fit_history[2]) >= Px(CellHeight + 2 * fit_config.text_padding)

\* the first auto-fit made the bbox wide enough for all the columns
GrownToColumnsWidth ==
    BoxWidth(fit_history[2]) >= ColumnsWidth(Len(ColumnsOfFit)) + Px(2 * fit_config.text_padding)

\* C25: for a vertical block whose single-character cell height exceeds the
\* content height (bbox height - 2 x padding), so that every column holds
\* one oversized character, auto-fit grows the bbox height to at least cell
\* height + 2 x padding and the width to fit all resulting columns.
C25_OversizedCellGrowsBox ==
    VerticalOversized => GrownToCellHeight /\ GrownToColumnsWidth

\* what the code does guarantee in the model's arithmetic: the height
OversizedCellGrowsHeight ==
    VerticalOversized => GrownToCellHeight

-----------------------------------------------------------------------------
(* get_font_line_height on its own: one call with arguments of the caller's *)
(* choice  (utils/font_utils.py:108-164)                                    *)

MaxDefaultSize == 2     \* largest small default_size tried, beside 16
MaxLineSpacing == 3     \* largest |vertical_spacing_px|

\* a face whose getbbox("AgyQI M") has no height and which has no getmask:
\* the int(size * 1.25) of line 139 applies
EmptyBoxFont ==
    [loaded |-> TRUE, has_size |-> TRUE, size |-> 1,
     has_getbbox |-> TRUE, bbox_top |-> 0, bbox_bottom |-> 0,
     has_getmask |-> FALSE, mask_h |-> 0, metrics_raise |-> FALSE,
     has_getlength |-> FALSE, m_len |-> 0,
     adv |-> [ch \in WrapAlphabet |-> 0]]

\* a font object with neither size nor getbbox nor getmask: only the final
\* fallback int(default_size * 1.2) of lines 155-156 gives it a height
BareFont ==
    [loaded |-> TRUE, has_size |-> FALSE, size |-> 0,
     has_getbbox |-> FALSE, bbox_top |-> 0, bbox_bottom |-> 0,
     has_getmask |-> FALSE, mask_h |-> 0, metrics_raise |-> FALSE,
     has_getlength |-> FALSE, m_len |-> 0,
     adv |-> [ch \in WrapAlphabet |-> 0]]

\* a face of size 16 whose metric calls raise: the except of lines 158-160
RaisingFont ==
    [loaded |-> TRUE, has_size |-> TRUE, size |-> 16,
     has_getbbox |-> TRUE, bbox_top |-> -12, bbox_bottom |-> 4,
     has_getmask |-> TRUE, mask_h |-> 12, metrics_raise |-> TRUE,
     has_getlength |-> TRUE, m_len |-> 0,
     adv |-> [ch \in WrapAlphabet |-> 0]]

\* <<PILLOW_AVAILABLE, font>>: without Pillow there is no font
LineHeightEnvironments ==
    {<<TRUE, f>> : f \in {SmallFont, BitmapFont, EmptyBoxFont, BareFont, RaisingFont, NoFont}}
      \cup {<<FALSE, NoFont>>}

LineHeightInit ==
    /\ MergeIdle
    /\ WrapIdle
    /\ FitIdle
    /\ EditIdle
    /\ RenderIdle
    /\ SentenceIdle
    /\ WorkerIdle
    /\ TranslateIdle
    /\ line_height_args \in
          {[pillow |-> e[1], font |-> e[2], default_size |-> d, vertical_spacing_px |-> v] :
               e \in LineHeightEnvironments,
               d \in (0..MaxDefaultSize) \cup {default_font_size_16},
               v \in (-MaxLineSpacing)..MaxLineSpacing}
    /\ line_height_result = <<>>

\* one call of get_font_line_height
LineHeight ==
    /\ line_height_args # <<>>
    /\ line_height_result = <<>>
    /\ line_height_result' =
           <<get_font_line_height(line_height_args.pillow, line_height_args.font,
                                  line_height_args.default_size,
                                  line_height_args.vertical_spacing_px)>>
    /\ UNCHANGED <<line_height_args, outsideLineHeight>>

LineHeightNext == LineHeight

SpecLineHeight == LineHeightInit /\ [][LineHeightNext]_vars

-----------------------------------------------------------------------------
(* Properties of get_font_line_height                                      *)

LineHeightReturned == line_height_result # <<>>

\* the size the heights are derived from: font.size of a loaded font that
\* has one, else default_size (lines 109-115)
NominalSize(a) ==
    IF a.pillow /\ a.font.loaded /\ a.font.has_size THEN a.font.size ELSE a.default_size

\* C20 as stated: get_font_line_height returns a positive integer for every
\* font (a missing font and one lacking precise metrics included) and every
\* caller-supplied extra spacing value.
C20_LineHeightPositive ==
    LineHeightReturned => (line_height_result[1] \in Int /\ line_height_result[1] > 0)

\* C20 amended: get_font_line_height returns an integer; for every font (a
\* missing font and one lacking precise metrics included) of nominal size at
\* least 1 the value without the extra spacing is at least 1, so the result
\* is positive for every extra spacing >= 0, and a negative extra spacing
\* lowers it by its amount and no further.
C20_LineHeightPositiveWithoutNegativeSpacing ==
    LineHeightReturned =>
        /\ line_height_result[1] \in Int
        /\ NominalSize(line_height_args) >= 1 =>
              /\ line_height_result[1] - line_height_args.vertical_spacing_px >= 1
              /\ line_height_args.vertical_spacing_px >= 0 => line_height_result[1] > 0

\* a font lacking every metric, default size 16 and one extra pixel: the
\* fallback int(16 * 1.2) = 19, and 20 with the spacing
C20_Witness ==
    /\ LineHeightReturned
    /\ line_height_args.font = BareFont
    /\ line_height_args.default_size = default_font_size_16
    /\ line_height_args.vertical_spacing_px = 1
    /\ line_height_result = <<20>>

-----------------------------------------------------------------------------
(* is_sentence_end on its own: one call on a text of the caller's choice   *)
(* (utils/utils.py:124-160, src/utils/utils.py:87-116)                     *)

MaxSentenceLen == 4     \* longest text tested

\* a letter, two sentence marks, three closing brackets (two of them
\* different corner brackets) and the two spaces
SentenceAlphabet == {"a", "IDEO_STOP", "!", "R_CORNER", "R_WCORNER", ")", " ", "IDEOSP"}
SentenceTexts == UNION {[1..n -> SentenceAlphabet] : n \in 0..MaxSentenceLen}

SentenceInit ==
    /\ MergeIdle
    /\ WrapIdle
    /\ FitIdle
    /\ EditIdle
    /\ RenderIdle
    /\ LineHeightIdle
    /\ WorkerIdle
    /\ TranslateIdle
    /\ sentence_text \in SentenceTexts
    /\ sentence_result = <<>>

\* one call of is_sentence_end
SentenceEnd ==
    /\ sentence_result = <<>>
    /\ sentence_result' = <<is_sentence_end(sentence_text)>>
    /\ UNCHANGED <<sentence_text, outsideSentence>>

SentenceNext == SentenceEnd

SpecSentence == SentenceInit /\ [][SentenceNext]_vars

-----------------------------------------------------------------------------
(* Properties of is_sentence_end                                           *)

SentenceReturned == sentence_result # <<>>

RECURSIVE WithoutClosers(_)
\* the text with all its trailing closing brackets, quotes and spaces removed
WithoutClosers(t) ==
    IF t # <<>> /\ t[Len(t)] \in (closing_brackets \cup WhiteSpace)
    THEN WithoutClosers(SubSeq(t, 1, Len(t) - 1)) ELSE t

\* the text ends with sentence punctuation once its trailing closing
\* brackets, quotes and spaces are removed
EndsSentenceBeforeClosers(t) ==
    WithoutClosers(t) # <<>> /\ WithoutClosers(t)[Len(WithoutClosers(t))] \in end_chars

\* C23: is_sentence_end(text) is true whenever the text, after all trailing
\* closing brackets/quotes and spaces are stripped, ends with one of the
\* sentence marks, several different closing brackets after the mark
\* included, and false when the character before the brackets is no such mark.
C23_SentenceEndLooksBeforeAllClosers ==
    SentenceReturned => sentence_result[1] = EndsSentenceBeforeClosers(sentence_text)

\* what the code does guarantee: it answers false whenever the character
\* before the closing brackets is no sentence mark, and true when the mark
\* is the last character or is followed by copies of one closing bracket
\* and ASCII spaces only
SentenceEndLooksBeforeOneKindOfCloser ==
    SentenceReturned =>
        /\ sentence_result[1] => EndsSentenceBeforeClosers(sentence_text)
        /\ (/\ EndsSentenceBeforeClosers(sentence_text)
            /\ \E b \in closing_brackets :
                  \A k \in (Len(WithoutClosers(Strip(sentence_text))) + 1)
                              ..Len(Strip(sentence_text)) :
                      Strip(sentence_text)[k] \in {b, " "}) => sentence_result[1]

-----------------------------------------------------------------------------
(* One run of TranslationWorker (ui/main_window.py:657-684) around        *)
(* ImageProcessor.process_image (image_processor.py:198-522), with the    *)
(* user's cancel button acting from the GUI thread.  A step reads the      *)
(* cancellation event once, when it begins; the slow calls (the Gemini     *)
(* request, the OCR engine, the return to run) each begin a step, so a     *)
(* cancellation can arrive before or after any of them.                    *)

\* the answers of the Gemini request that process_image tells apart
\* (image_processor.py:310-364)
GeminiResponses ==
    {"blocks",       \* a JSON list with one well-formed item
     "bad_bbox",     \* a JSON list with one item whose box is empty (dropped at 491-495)
     "empty",        \* "[]" or an empty answer with choices
     "no_content",   \* no choices or no message content (320-321)
     "not_list",     \* JSON that is not a list (354), or JSON that does not parse (356)
     "api_error"}    \* the request raised (357-364)

\* what the worker meets: the image file, the configured OCR provider, the
\* OpenAI library and client, the Gemini answer, the fallback OCR engine,
\* and whether the conversion loop raises (it runs under no handler)
WorkerEnvironments ==
    [load : {"ok", "no_pillow", "no_file", "load_failed"},
     ocr_provider : {"gemini", "paddle"},
     openai : {"ok", "no_lib", "no_client"},
     response : GeminiResponses,
     fallback : {"unavailable", "engine_failed", "no_text", "text"},
     convert_raises : BOOLEAN]

\* the locals of process_image at line 229
InitialLocals ==
    [gemini_multimodal_attempted |-> FALSE,
     run_fallback_ocr |-> FALSE,
     gemini_failed |-> FALSE,     \* history: the test of line 373 was true
     intermediate_blocks_for_processing |-> <<>>,
     ocr_results_for_translation |-> <<>>]

WorkerInit ==
    /\ worker_pc = "start"
    /\ cancellation_event = FALSE
    /\ worker_env \in WorkerEnvironments
    /\ last_error = "None"
    /\ worker_locals = InitialLocals
    /\ providers_attempted = <<>>
    /\ result_tuple = <<>>
    /\ finished_signal = <<>>
    /\ MergeIdle
    /\ WrapIdle
    /\ FitIdle
    /\ EditIdle
    /\ RenderIdle
    /\ LineHeightIdle
    /\ SentenceIdle
    /\ TranslateIdle

\* process_image ends: it returns None ("None"), returns the tuple of line 522
\* ("tuple"), or lets an exception out ("InterruptedError", "Exception")
Ends(kind, blocks, err) ==
    /\ result_tuple' = <<[kind |-> kind, blocks |-> blocks,
                          event_at_return |-> cancellation_event]>>
    /\ last_error' = err
    /\ worker_pc' = IF kind \in {"None", "tuple"} THEN "returned" ELSE "raised"
    /\ UNCHANGED worker_locals

\* process_image goes on to the next step
GoesOn(pc, err, locals) ==
    /\ worker_pc' = pc
    /\ last_error' = err
    /\ worker_locals' = locals
    /\ UNCHANGED result_tuple

\* run, lines 665-668, and process_image, lines 199-223: the first progress
\* report (the callback raises InterruptedError once the event is set), the
\* first _check_cancelled, and the loading of the image
RunStart ==
    /\ worker_pc = "start"
    /\ IF cancellation_event THEN Ends("InterruptedError", <<>>, "None")
       ELSE IF worker_env.load # "ok" THEN Ends("None", <<>>, worker_env.load)
       ELSE GoesOn("loaded", "None", InitialLocals)
    /\ UNCHANGED <<cancellation_event, worker_env, providers_attempted, finished_signal,
                   outsideWorker>>

\* lines 224-309: the provider preference and, for Gemini, the library, the
\* client and the request's payload, up to the request itself
PrimaryOcr ==
    /\ worker_pc = "loaded"
    /\ IF cancellation_event
       THEN Ends("None", <<>>, "cancelled") /\ UNCHANGED providers_attempted
       ELSE IF worker_env.ocr_provider = "gemini"
       THEN LET attempted == [worker_locals EXCEPT !.gemini_multimodal_attempted = TRUE]
            IN  IF worker_env.openai = "no_lib"
                THEN GoesOn("decide", "openai_lib", attempted)
                     /\ UNCHANGED providers_attempted
                ELSE IF worker_env.openai = "no_client"
                THEN GoesOn("decide", "client", attempted)
                     /\ UNCHANGED providers_attempted
                ELSE GoesOn("gemini_call", last_error, attempted)
                     /\ providers_attempted' = Append(providers_attempted, "gemini")
       ELSE GoesOn("decide", last_error, worker_locals) /\ UNCHANGED providers_attempted
    /\ UNCHANGED <<cancellation_event, worker_env, finished_signal, outsideWorker>>

\* the blocks a Gemini answer adds to intermediate_blocks_for_processing
\* (lines 337-350)
gemini_blocks(response) ==
    IF response = "blocks" THEN <<[id |-> "gemini_multimodal_0", bbox_ok |-> TRUE]>>
    ELSE IF response = "bad_bbox" THEN <<[id |-> "gemini_multimodal_0", bbox_ok |-> FALSE]>>
    ELSE <<>>

\* last_error after the Gemini answer (lines 317-364).  The progress reports
\* of lines 334 and 351 are inside the try: once the event is set the
\* callback's InterruptedError is caught by the handler of line 363.
gemini_error(response, event, err) ==
    IF response \in {"not_list", "api_error"} THEN response
    ELSE IF event THEN "unknown_error"
    ELSE IF response = "no_content" THEN "no_content"
    ELSE err

\* lines 310-364: the request and the parsing of its answer
GeminiResponse ==
    /\ worker_pc = "gemini_call"
    /\ GoesOn("decide",
              gemini_error(worker_env.response, cancellation_event, last_error),
              [worker_locals EXCEPT !.intermediate_blocks_for_processing =
                                        gemini_blocks(worker_env.response)])
    /\ UNCHANGED <<cancellation_event, worker_env, providers_attempted, finished_signal,
                   outsideWorker>>

\* lines 372-378: whether the fallback OCR runs
run_fallback_ocr(locals, err, ocr_provider) ==
    IF /\ locals.intermediate_blocks_for_processing = <<>>
       /\ locals.gemini_multimodal_attempted
       /\ err # "None"
    THEN FALSE                       \* line 375
    ELSE ocr_provider # "gemini"     \* lines 376-378

\* lines 371-387: the decision, and the loading of the fallback provider
DecideFallback ==
    /\ worker_pc = "decide"
    /\ IF cancellation_event
       THEN Ends("None", <<>>, "cancelled") /\ UNCHANGED providers_attempted
       ELSE LET run == run_fallback_ocr(worker_locals, last_error, worker_env.ocr_provider)
                failed == /\ worker_locals.intermediate_blocks_for_processing = <<>>
                          /\ worker_locals.gemini_multimodal_attempted
                          /\ last_error # "None"
                locals == [worker_locals EXCEPT !.run_fallback_ocr = run,
                                                !.gemini_failed = failed]
                cleared == IF worker_locals.gemini_multimodal_attempted
                           THEN "None" ELSE last_error      \* lines 381-382
            IN  IF ~ run
                THEN GoesOn("translate", last_error, locals)
                     /\ UNCHANGED providers_attempted
                ELSE IF worker_env.fallback = "unavailable"
                THEN GoesOn("translate", "fallback_unavailable", locals)
                     /\ UNCHANGED providers_attempted
                ELSE GoesOn("fallback_call", cleared, locals)
                     /\ providers_attempted' = Append(providers_attempted, "fallback")
    /\ UNCHANGED <<cancellation_event, worker_env, finished_signal, outsideWorker>>

\* what process_ocr_results_merge_lines returns to the fallback provider:
\* nothing when the engine found nothing, else the span of the one fragment
\* it found (utils.py:367)
MergedEngineOutput(fallback) ==
    IF fallback = "text" THEN <<<<<<"K_HAI", "K_SHIN">>, <<10, 10, 40, 30>>>>>> ELSE <<>>

\* lines 388-394: recognize_text of the fallback provider, then the progress
\* report of line 394, whose callback raises once the event is set
FallbackOcr ==
    /\ worker_pc = "fallback_call"
    /\ LET r == IF worker_env.fallback = "engine_failed"
                THEN [returned |-> "None", results |-> <<>>, last_error |-> "engine"]
                ELSE recognize_text(MergedEngineOutput(worker_env.fallback))
           err == IF r.returned = "None" THEN "fallback_failed" ELSE last_error
       IN  IF cancellation_event THEN Ends("InterruptedError", <<>>, err)
           ELSE GoesOn("translate", err,
                       [worker_locals EXCEPT !.ocr_results_for_translation = r.results])
    /\ UNCHANGED <<cancellation_event, worker_env, providers_attempted, finished_signal,
                   outsideWorker>>

\* lines 398-461: the separate translation of OCR results.  translated is
\* what the translation step yields: "no_provider", "None" (translate_batch
\* returned None) or "list".
translation_step(locals, err, translated) ==
    LET ocr == locals.ocr_results_for_translation
        blocks == locals.intermediate_blocks_for_processing
    IN  IF blocks = <<>> /\ ocr # <<>>
        THEN IF translated = "list"
             THEN [locals |-> [locals EXCEPT !.intermediate_blocks_for_processing =
                                  [k \in 1..Len(ocr) |-> [id |-> "ocr_trans", bbox_ok |-> TRUE]]],
                   err |-> err]
             ELSE [locals |-> locals, err |-> translated]
        ELSE IF ocr = <<>> /\ blocks = <<>> /\ err = "None"
        THEN [locals |-> locals, err |-> "no_text"]      \* lines 402-404
        ELSE [locals |-> locals, err |-> err]

Translate ==
    /\ worker_pc = "translate"
    /\ IF cancellation_event THEN Ends("None", <<>>, "cancelled")
       ELSE \E translated \in {"no_provider", "None", "list"} :
               LET t == translation_step(worker_locals, last_error, translated)
               IN  GoesOn("convert", t.err, t.locals)
    /\ UNCHANGED <<cancellation_event, worker_env, providers_attempted, finished_signal,
                   outsideWorker>>

\* lines 464-517: the blocks that survive the conversion
surviving_blocks(blocks) == SelectSeq(blocks, LAMBDA b : b.bbox_ok)

\* lines 462-521: the conversion to ProcessedBlocks and the last report
Convert ==
    /\ worker_pc = "convert"
    /\ IF cancellation_event THEN Ends("None", <<>>, "cancelled")
       ELSE IF worker_env.convert_raises THEN Ends("Exception", <<>>, last_error)
       ELSE LET final == surviving_blocks(
                             worker_locals.intermediate_blocks_for_processing)
            IN  GoesOn("converted",
                       IF final = <<>> /\ last_error = "None"
                       THEN "no_blocks" ELSE last_error,      \* lines 518-519
                       worker_locals)
    /\ UNCHANGED <<cancellation_event, worker_env, providers_attempted, finished_signal,
                   outsideWorker>>

\* line 522: return pil_image_original, final_processed_blocks
ReturnTuple ==
    /\ worker_pc = "converted"
    /\ Ends("tuple",
            surviving_blocks(worker_locals.intermediate_blocks_for_processing),
            last_error)
    /\ UNCHANGED <<cancellation_event, worker_env, providers_attempted, finished_signal,
                   outsideWorker>>

NullEmission(error) ==
    [image_null |-> TRUE, blocks_null |-> TRUE, blocks |-> <<>>, error |-> error]

\* main_window.py:669-676 with the event ignored
emission_ignoring_event(res, event, err) ==
    IF res.kind = "tuple"
    THEN [image_null |-> FALSE, blocks_null |-> FALSE, blocks |-> res.blocks, error |-> err]
    ELSE NullEmission(IF err = "None" THEN "processing_failed" ELSE err)

\* main_window.py:669-676: what run emits once process_image has returned
emission_after_return(res, event, err) ==
    IF event THEN NullEmission("cancelled")
    ELSE IF res.kind = "tuple"
    THEN [image_null |-> FALSE, blocks_null |-> FALSE, blocks |-> res.blocks, error |-> err]
    ELSE NullEmission(IF err = "None" THEN "processing_failed" ELSE err)

\* main_window.py:677-680: what run emits when process_image raised
emission_after_raise(res) ==
    IF res.kind = "InterruptedError" THEN NullEmission("cancelled")
    ELSE NullEmission("worker_error")

\* run, lines 669-676
EmitAfterReturn ==
    /\ worker_pc = "returned"
    /\ finished_signal' =
           Append(finished_signal,
                  emission_after_return(result_tuple[1], cancellation_event, last_error))
    /\ worker_pc' = "emitted"
    /\ UNCHANGED <<cancellation_event, worker_env, last_error, worker_locals,
                   providers_attempted, result_tuple, outsideWorker>>

\* run, lines 677-680
EmitAfterRaise ==
    /\ worker_pc = "raised"
    /\ finished_signal' = Append(finished_signal, emission_after_raise(result_tuple[1]))
    /\ worker_pc' = "emitted"
    /\ UNCHANGED <<cancellation_event, worker_env, last_error, worker_locals,
                   providers_attempted, result_tuple, outsideWorker>>

\* TranslationWorker.cancel (main_window.py:684), called by the cancel button
\* while the worker is running (main_window.py:1130)
Cancel ==
    /\ worker_pc \notin {"idle", "emitted"}
    /\ ~ cancellation_event
    /\ cancellation_event' = TRUE
    /\ UNCHANGED <<worker_pc, worker_env, last_error, worker_locals, providers_attempted,
                   result_tuple, finished_signal, outsideWorker>>

\* the steps of the worker thread
WorkerStep ==
    \/ RunStart
    \/ PrimaryOcr
    \/ GeminiResponse
    \/ DecideFallback
    \/ FallbackOcr
    \/ Translate
    \/ Convert
    \/ ReturnTuple
    \/ EmitAfterReturn
    \/ EmitAfterRaise

WorkerNext == WorkerStep \/ Cancel

SpecWorker == WorkerInit /\ [][WorkerNext]_vars

\* the worker is a running thread and each of its calls ends (the requests
\* carry timeouts): the thread keeps taking its steps
SpecWorkerFair == SpecWorker /\ WF_vars(WorkerStep)

-----------------------------------------------------------------------------
(* Properties of the worker                                                *)

ProcessImageEnded == result_tuple # <<>>

FallbackAttempted == \E k \in 1..Len(providers_attempted) : providers_attempted[k] = "fallback"

\* C26: when the primary OCR provider is Gemini and the multimodal attempt
\* fails (an error is recorded and no blocks were obtained), the configured
\* fallback OCR provider is attempted before the pipeline finishes.  Stated
\* for the runs nobody cancelled: once process_image has ended after such a
\* failure, the fallback provider has been called.
C26_FallbackTriedAfterGeminiFailure ==
    (ProcessImageEnded /\ ~ cancellation_event /\ worker_locals.gemini_failed)
        => FallbackAttempted

\* what the code does instead: after a failed multimodal attempt the fallback
\* provider is never called, and process_image returns no block
NoFallbackAfterGeminiFailure ==
    worker_locals.gemini_failed =>
        /\ ~ FallbackAttempted
        /\ (ProcessImageEnded /\ result_tuple[1].kind = "tuple")
               => (result_tuple[1].blocks = <<>> /\ last_error # "None")

\* finished_signal has been emitted once when run is over and not before
EmittedExactlyOnce == Len(finished_signal) = IF worker_pc = "emitted" THEN 1 ELSE 0

\* the event was set by the time process_image returned or raised
CancelledByReturn == ProcessImageEnded /\ result_tuple[1].event_at_return

\* the emission of a run cancelled by then carries no image and no blocks
CancelledRunDeliversNothing ==
    (worker_pc = "emitted" /\ CancelledByReturn) =>
        (finished_signal[1].image_null /\ finished_signal[1].blocks_null)

\* C29: every run of TranslationWorker emits finished_signal exactly once,
\* whatever process_image returns or raises, and if the cancellation event
\* is set by the time process_image returns the emission carries null image
\* and null blocks.
C29_FinishedOnceAndCancelledNull ==
    /\ [](EmittedExactlyOnce /\ CancelledRunDeliversNothing)
    /\ <>(worker_pc = "emitted")

\* C29, its case: process_image returned its tuple with a block while the
\* event was already set, and run has emitted
C29_Witness ==
    /\ worker_pc = "emitted"
    /\ CancelledByReturn
    /\ result_tuple[1].kind = "tuple"
    /\ result_tuple[1].blocks # <<>>

-----------------------------------------------------------------------------
(* translate_batch (services/translation_providers.py): one call of        *)
(* LocalLLMTranslationProvider.translate_batch (86-210) or of              *)
(* GeminiTextTranslationProvider.translate_batch (225-332), with the       *)
(* cancellation event set from another thread at any moment.               *)

MaxTexts == 3    \* longest list of texts translated in one call

\* a text to translate, a second one, and a blank one (strip() leaves nothing)
TranslateTexts == {"a", "b", " "}

TranslateTextLists == UNION {[1..n -> TranslateTexts] : n \in 0..MaxTexts}

\* what one request can end as: a translation, the default text kept when
\* the answer has no content (local provider, lines 141 and 151-156), or one
\* of the handlers' markers (161-191, 297-312)
RequestOutcomes(provider) ==
    IF provider = "local" THEN {"translated", "[failed]", "[error]"}
    ELSE {"translated", "[Gemini error]"}

TranslationResult(original_text, translated_text) ==
    [original_text |-> original_text, translated_text |-> translated_text]

\* texts[first], ..., texts[total_items - 1] (counted from 0) as cancelled results
\* with one of them left out
cancelled_results_short_by_one(texts, first) ==
    [k \in 1..(Len(texts) - first - 1) |-> TranslationResult(texts[first + 1 + k], "[cancelled]")]

\* lines 118-119 and 201-202 (259-260, 324-325): the results appended for
\* texts[first], ..., texts[total_items - 1], counted from 0
cancelled_results(texts, first) ==
    [k \in 1..(Len(texts) - first) |-> TranslationResult(texts[first + k], "[cancelled]")]

\* lines 199 and 320: the last result is an error marker and is kept
keeps_last_result(provider, translated_text) ==
    IF provider = "local" THEN translated_text = "[error]"
    ELSE translated_text = "[Gemini error]"

TranslateInit ==
    /\ translate_pc = "call"
    /\ translate_event = FALSE
    /\ translate_args \in [provider : {"local", "gemini"}, usable : BOOLEAN,
                           texts : TranslateTextLists]
    /\ translate_loop = <<>>
    /\ translate_return = <<>>
    /\ MergeIdle
    /\ WrapIdle
    /\ FitIdle
    /\ EditIdle
    /\ RenderIdle
    /\ LineHeightIdle
    /\ SentenceIdle
    /\ WorkerIdle

\* translate_batch returns
TranslateReturns(kind, results, err) ==
    /\ translate_return' = <<[kind |-> kind, results |-> results, last_error |-> err]>>
    /\ translate_pc' = "returned"
    /\ UNCHANGED translate_loop

\* lines 89-113 (228-254): the provider without a client or a model returns
\* None; otherwise the loop begins with no result
TranslateCall ==
    /\ translate_pc = "call"
    /\ IF ~ translate_args.usable
       THEN TranslateReturns("None", <<>>, "unusable")
       ELSE /\ translate_loop' = [i |-> 0, results |-> <<>>, last_error |-> "None"]
            /\ translate_pc' = "item"
            /\ UNCHANGED translate_return
    /\ UNCHANGED <<translate_event, translate_args, outsideTranslate>>

\* lines 114-139 (256-281): the head of one iteration, or the end of the loop
\* and the return of lines 205-210 (328-332)
TranslateItem ==
    /\ translate_pc = "item"
    /\ LET i == translate_loop.i
           texts == translate_args.texts
       IN  IF i >= Len(texts)
           THEN TranslateReturns("list", translate_loop.results, translate_loop.last_error)
           ELSE IF translate_event
           THEN TranslateReturns("list",
                                 translate_loop.results \o cancelled_results(texts, i),
                                 "cancelled")
           ELSE IF texts[i + 1] = " "
           THEN /\ translate_loop' =
                       [translate_loop EXCEPT
                           !.results = Append(@, TranslationResult(texts[i + 1], "")),
                           !.i = i + 1]
                /\ UNCHANGED <<translate_pc, translate_return>>
           ELSE /\ translate_pc' = "request"
                /\ UNCHANGED <<translate_loop, translate_return>>
    /\ UNCHANGED <<translate_event, translate_args, outsideTranslate>>

\* lines 141-193 (282-315): the request and its handlers; every way out
\* appends one result for the item
TranslateRequest ==
    /\ translate_pc = "request"
    /\ \E outcome \in RequestOutcomes(translate_args.provider) :
          translate_loop' =
              [translate_loop EXCEPT
                  !.results = Append(@, TranslationResult(
                                            translate_args.texts[translate_loop.i + 1], outcome)),
                  !.last_error = IF outcome = "translated" THEN @ ELSE "request_failed"]
    /\ translate_pc' = "after"
    /\ UNCHANGED <<translate_event, translate_args, translate_return, outsideTranslate>>

\* lines 196-203 (318-326): the test of the event after the request
TranslateAfterRequest ==
    /\ translate_pc = "after"
    /\ LET i == translate_loop.i
           texts == translate_args.texts
           results == translate_loop.results
           last == results[Len(results)]
       IN  IF translate_event
           THEN TranslateReturns(
                    "list",
                    (IF keeps_last_result(translate_args.provider, last.translated_text)
                     THEN results
                     ELSE [results EXCEPT ![Len(results)] =
                              TranslationResult(texts[i + 1], "[cancelled]")])
                      \o cancelled_results(texts, i + 1),
                    "cancelled")
           ELSE /\ translate_loop' = [translate_loop EXCEPT !.i = i + 1]
                /\ translate_pc' = "item"
                /\ UNCHANGED translate_return
    /\ UNCHANGED <<translate_event, translate_args, outsideTranslate>>

\* cancellation_event.set() by another thread, at any moment of the call
TranslateCancel ==
    /\ translate_pc \in {"call", "item", "request", "after"}
    /\ ~ translate_event
    /\ translate_event' = TRUE
    /\ UNCHANGED <<translate_pc, translate_args, translate_loop, translate_return,
                   outsideTranslate>>

TranslateNext ==
    \/ TranslateCall
    \/ TranslateItem
    \/ TranslateRequest
    \/ TranslateAfterRequest
    \/ TranslateCancel

SpecTranslate == TranslateInit /\ [][TranslateNext]_vars

TranslateReturned == translate_pc = "returned"

\* one result per text, in order, each carrying its text
ResultsMatchTexts(results, texts) ==
    /\ Len(results) = Len(texts)
    /\ \A k \in 1..Len(texts) : results[k].original_text = texts[k]

\* C28: translate_batch returns either None (provider unusable) or a list of
\* exactly len(texts) results whose i-th entry has original_text == texts[i],
\* on every path: blank items, per-item provider failures, and cancellation
\* arriving before or after any item's network call.
C28_OneResultPerText ==
    TranslateReturned =>
        LET r == translate_return[1]
        IN  IF translate_args.usable
            THEN r.kind = "list" /\ ResultsMatchTexts(r.results, translate_args.texts)
            ELSE r.kind = "None"

\* C28, its case: a full list of texts with a blank item, a failed request,
\* and a cancellation that arrived after a request and cut the list short
C28_Witness ==
    /\ TranslateReturned
    /\ translate_event
    /\ Len(translate_args.texts) = MaxTexts
    /\ translate_return[1].kind = "list"
    /\ translate_loop.i < MaxTexts - 1
    /\ \E k \in 1..Len(translate_return[1].results) :
           translate_return[1].results[k].translated_text = ""
    /\ \E k \in 1..Len(translate_return[1].results) :
           translate_return[1].results[k].translated_text \in {"[error]", "[Gemini error]"}
    /\ \E k \in 1..Len(translate_return[1].results) :
           translate_return[1].results[k].translated_text = "[cancelled]"

=============================================================================
